---- MODULE Spec2Model ----
(***************************************************************************)
(* A model of the JSON <-> TOON codec of jsontotoon (toonUtils, jsonUtils, *)
(* jsonRepairUtils).  Text is a TLA+ string; a character is a string of    *)
(* length one.  The string helpers keep JavaScript's names and its 0-based *)
(* indices, so that every operator can be read against the source.  A      *)
(* value that the source keeps in a local variable is passed on as the     *)
(* argument of a local operator.                                           *)
(***************************************************************************)
EXTENDS Integers, Sequences, FiniteSets, TLC

\* a value computed once and then used under a name, as a const is
The(S) == CHOOSE x \in S : TRUE

(***************************************************************************)
(* JavaScript string primitives                                            *)
(***************************************************************************)
\* s[i] and s.charAt(i); "" stands for undefined / the empty string out of range
charAt(s, i) == IF i < 0 \/ i >= Len(s) THEN "" ELSE SubSeq(s, i + 1, i + 1)

Clamp(i, n) == IF i < 0 THEN 0 ELSE IF i > n THEN n ELSE i

\* s.substring(a, b): both ends clamped to 0..length, swapped when a > b
substring(s, a, b) ==
    LET Sub(lo, hi) == IF lo >= hi THEN "" ELSE SubSeq(s, lo + 1, hi)
    IN  Sub(Clamp(IF a < b THEN a ELSE b, Len(s)), Clamp(IF a < b THEN b ELSE a, Len(s)))

\* s.substring(a)
substringFrom(s, a) == IF a >= Len(s) THEN "" ELSE SubSeq(s, Clamp(a, Len(s)) + 1, Len(s))

startsWith(s, p) == Len(s) >= Len(p) /\ SubSeq(s, 1, Len(p)) = p

endsWith(s, p) == Len(s) >= Len(p) /\ SubSeq(s, Len(s) - Len(p) + 1, Len(s)) = p

CharsOf(s) == { SubSeq(s, i, i) : i \in 1..Len(s) }

SetMin(S) == CHOOSE x \in S : \A y \in S : x <= y

SetMax(S) == CHOOSE x \in S : \A y \in S : x >= y

\* the least element of S, or d when S is empty
MinOr(S, d) == IF S = {} THEN d ELSE SetMin(S)

indexOf(s, p) ==
    MinOr({ i \in 0..(Len(s) - Len(p)) : SubSeq(s, i + 1, i + Len(p)) = p }, -1)

includes(s, p) == \E i \in 0..(Len(s) - Len(p)) : SubSeq(s, i + 1, i + Len(p)) = p

\* The characters String.prototype.trim removes and /\S/ does not match
\* (those the model's texts can hold).
WhiteSpace == {" ", "\t", "\n", "\r", "\f"}

\* the indices of the characters of s that are not whitespace
NonSpace(s) == { i \in 0..(Len(s) - 1) : SubSeq(s, i + 1, i + 1) \notin WhiteSpace }

\* line.search(/\S/): index of the first non-whitespace character, or -1
searchNonSpace(s) == MinOr(NonSpace(s), -1)

trim(s) ==
    LET Cut(hits) == IF hits = {} THEN "" ELSE SubSeq(s, SetMin(hits) + 1, SetMax(hits) + 1)
    IN  Cut(NonSpace(s))

RECURSIVE split(_, _)
split(s, sep) ==
    LET At(k) == IF k = -1 THEN <<s>>
                 ELSE <<substring(s, 0, k)>> \o split(substringFrom(s, k + Len(sep)), sep)
    IN  At(indexOf(s, sep))

RECURSIVE join(_, _)
join(parts, sep) ==
    IF Len(parts) = 0 THEN ""
    ELSE IF Len(parts) = 1 THEN parts[1]
    ELSE parts[1] \o sep \o join(Tail(parts), sep)

RECURSIVE repeat(_, _)
repeat(s, n) == IF n <= 0 THEN "" ELSE s \o repeat(s, n - 1)

(***************************************************************************)
(* Character classes of the regular expressions in the source              *)
(***************************************************************************)
Digits == CharsOf("0123456789")

Letters == CharsOf("abcdefghijklmnopqrstuvwxyz") \cup CharsOf("ABCDEFGHIJKLMNOPQRSTUVWXYZ")

\* \w and [a-zA-Z0-9_]
WordChars == Letters \cup Digits \cup {"_"}

AllIn(s, S) == \A i \in 1..Len(s) : SubSeq(s, i, i) \in S

\* a faulty IsBareString: the class without the dot
IsBareStringNoDot(s) == Len(s) >= 1 /\ AllIn(s, WordChars)

\* /^[a-zA-Z0-9_.]+$/
IsBareString(s) == Len(s) >= 1 /\ AllIn(s, WordChars \cup {"."})

\* /^[a-zA-Z0-9_]+$/
IsBareKey(s) == Len(s) >= 1 /\ AllIn(s, WordChars)

(***************************************************************************)
(* JavaScript numbers.  A Number is NaN, an infinity, or the finite value  *)
(* (-1)^neg * m * 10^e with m not divisible by 10 (zero is m = 0, e = 0).  *)
(* The model's numerals are short, so no value leaves the range in which   *)
(* a double holds a decimal numeral exactly as written.                    *)
(***************************************************************************)
NaN == [k |-> "nan", neg |-> FALSE, m |-> 0, e |-> 0]

Infinity(neg) == [k |-> "inf", neg |-> neg, m |-> 0, e |-> 0]

RECURSIVE Finite(_, _, _)
Finite(neg, m, e) ==
    IF m = 0 THEN [k |-> "fin", neg |-> FALSE, m |-> 0, e |-> 0]
    ELSE IF m % 10 = 0 THEN Finite(neg, m \div 10, e + 1)
    ELSE [k |-> "fin", neg |-> neg, m |-> m, e |-> e]

DigitVal(c) == indexOf("0123456789abcdef", c)

RECURSIVE DigitsToNat(_, _)
DigitsToNat(s, radix) ==
    IF s = "" THEN 0
    ELSE DigitsToNat(SubSeq(s, 1, Len(s) - 1), radix) * radix
         + DigitVal(SubSeq(s, Len(s), Len(s)))

RECURSIVE NatToDigits(_)
NatToDigits(n) ==
    IF n < 10 THEN charAt("0123456789", n)
    ELSE NatToDigits(n \div 10) \o charAt("0123456789", n % 10)

\* the length of the run of decimal digits that s holds from index p on
DigitRun(s, p) ==
    MinOr({ i \in p..(Len(s) - 1) : SubSeq(s, i + 1, i + 1) \notin Digits },
          IF p > Len(s) THEN p ELSE Len(s)) - p

\* StrDecimalLiteral without its sign: digits [. digits] [e[+-]digits] or
\* . digits [e[+-]digits]; NaN when the text is no such literal.
DecimalLiteral(neg, body) ==
    LET \* mant: the digits written; d1 of them before the point, d2 after it
        Value(mant, d1, d2, exp) ==
            IF mant # 0 /\ d1 + exp > 309 THEN Infinity(neg)
            ELSE Finite(neg, IF d1 + exp < -324 THEN 0 ELSE mant, exp - d2)
        \* rest: what follows the digits; sign: 1 when the exponent has a sign
        Exponent(mant, d1, d2, rest, sign) ==
            IF rest # "" /\ ~(/\ SubSeq(rest, 1, 1) \in {"e", "E"}
                              /\ Len(rest) >= 2 + sign
                              /\ AllIn(SubSeq(rest, 2 + sign, Len(rest)), Digits))
            THEN NaN
            ELSE Value(mant, d1, d2,
                       IF rest = "" THEN 0
                       ELSE (IF sign = 1 /\ SubSeq(rest, 2, 2) = "-" THEN -1 ELSE 1)
                            * DigitsToNat(SubSeq(rest, 2 + sign, Len(rest)), 10))
        Fraction(d1, dot, d2) ==
            IF d1 + d2 < 1 THEN NaN
            ELSE Exponent(DigitsToNat(SubSeq(body, 1, d1)
                                      \o SubSeq(body, d1 + dot + 1, d1 + dot + d2), 10),
                          d1, d2, SubSeq(body, d1 + dot + d2 + 1, Len(body)),
                          IF charAt(body, d1 + dot + d2 + 1) \in {"+", "-"} THEN 1 ELSE 0)
        Point(d1, dot) == Fraction(d1, dot, IF dot = 1 THEN DigitRun(body, d1 + 1) ELSE 0)
        Integer(d1) == Point(d1, IF charAt(body, d1) = "." THEN 1 ELSE 0)
    IN  Integer(DigitRun(body, 0))

HexVal(c) == IF c \in CharsOf("ABCDEF") THEN 10 + indexOf("ABCDEF", c) ELSE DigitVal(c)

RECURSIVE RadixToNat(_, _)
RadixToNat(s, radix) ==
    IF s = "" THEN 0
    ELSE RadixToNat(SubSeq(s, 1, Len(s) - 1), radix) * radix + HexVal(SubSeq(s, Len(s), Len(s)))

\* 0x / 0o / 0b literals (unsigned)
RadixLiteral(t) ==
    LET Of(body, radix) ==
            IF body # "" /\ \A i \in 1..Len(body) :
                               /\ SubSeq(body, i, i) \in CharsOf("0123456789abcdefABCDEF")
                               /\ HexVal(SubSeq(body, i, i)) < radix
            THEN Finite(FALSE, RadixToNat(body, radix), 0)
            ELSE NaN
    IN  Of(substringFrom(t, 2),
           IF SubSeq(t, 2, 2) \in {"x", "X"} THEN 16
           ELSE IF SubSeq(t, 2, 2) \in {"o", "O"} THEN 8 ELSE 2)

\* Number(s) for a string s (StringToNumber)
Number(s) ==
    LET Of(t) ==
            IF t = "" THEN Finite(FALSE, 0, 0)
            ELSE IF SubSeq(t, 1, Clamp(2, Len(t))) \in {"0x", "0X", "0o", "0O", "0b", "0B"}
            THEN RadixLiteral(t)
            ELSE IF t \in {"Infinity", "+Infinity", "-Infinity"}
            THEN Infinity(SubSeq(t, 1, 1) = "-")
            ELSE DecimalLiteral(SubSeq(t, 1, 1) = "-",
                                IF SubSeq(t, 1, 1) \in {"-", "+"}
                                THEN SubSeq(t, 2, Len(t)) ELSE t)
    IN  Of(trim(s))

isNaN(n) == n.k = "nan"

\* Number.prototype.toString()
NumberToString(n) ==
    LET \* digits: the decimal digits of m; pos: where the decimal point falls
        Exp(x) == (IF x < 0 THEN "-" ELSE "+") \o NatToDigits(IF x < 0 THEN 0 - x ELSE x)
        Abs(digits, k, pos) ==
            IF k <= pos /\ pos <= 21 THEN digits \o repeat("0", pos - k)
            ELSE IF 0 < pos /\ pos <= 21
                 THEN substring(digits, 0, pos) \o "." \o substringFrom(digits, pos)
            ELSE IF -6 < pos /\ pos <= 0 THEN "0." \o repeat("0", 0 - pos) \o digits
            ELSE IF k = 1 THEN digits \o "e" \o Exp(pos - 1)
            ELSE SubSeq(digits, 1, 1) \o "." \o substringFrom(digits, 1) \o "e" \o Exp(pos - 1)
        Of(digits) == Abs(digits, Len(digits), Len(digits) + n.e)
    IN  IF n.k = "nan" THEN "NaN"
        ELSE IF n.k = "inf" THEN (IF n.neg THEN "-Infinity" ELSE "Infinity")
        ELSE IF n.m = 0 THEN "0"
        ELSE (IF n.neg THEN "-" ELSE "") \o Of(NatToDigits(n.m))

(***************************************************************************)
(* JavaScript values.  An object is its own properties in creation order;  *)
(* a hole is an array slot that was never assigned.                        *)
(***************************************************************************)
Null == [t |-> "null"]

Bool(b) == [t |-> "bool", v |-> b]

Num(n) == [t |-> "num", v |-> n]

Str(s) == [t |-> "str", v |-> s]

Arr(items) == [t |-> "arr", v |-> items]

Obj(props) == [t |-> "obj", v |-> props]

Hole == [t |-> "hole"]

Prop(k, v) == [k |-> k, v |-> v]

\* typeof item !== 'object' || item === null
IsPrimitive(x) == x.t \notin {"arr", "obj"}

\* A canonical array index: the decimal numeral of an integer, no leading
\* zero (the model's keys are shorter than the largest index, 2^32 - 2).
IsArrayIndex(k) ==
    /\ k # ""
    /\ AllIn(k, Digits)
    /\ (k = "0" \/ SubSeq(k, 1, 1) # "0")
    /\ Len(k) <= 9

RECURSIVE SortIndexKeys(_)
SortIndexKeys(ks) ==
    IF ks = {} THEN <<>>
    ELSE LET Least(lo) == <<lo>> \o SortIndexKeys(ks \ {lo})
         IN  Least(CHOOSE a \in ks : \A b \in ks : DigitsToNat(a, 10) <= DigitsToNat(b, 10))

\* a faulty ObjectKeys: the keys in creation order
ObjectKeysAsCreated(props) == [i \in 1..Len(props) |-> props[i].k]

\* Object.keys(o) (OrdinaryOwnPropertyKeys): the integer-index keys in
\* ascending numeric order, then the other keys in creation order.
ObjectKeys(props) ==
    LET NotIdx(p) == ~IsArrayIndex(p.k)
        Names(ps) == [i \in 1..Len(ps) |-> ps[i].k]
    IN  SortIndexKeys({ props[i].k : i \in { j \in 1..Len(props) : IsArrayIndex(props[j].k) } })
        \o Names(SelectSeq(props, NotIdx))

HasOwn(props, k) == \E i \in 1..Len(props) : props[i].k = k

\* o[k] for an own property
Get(props, k) == props[CHOOSE i \in 1..Len(props) : props[i].k = k].v

\* CreateDataProperty: a new key is appended, an existing one keeps its place
DefineProp(props, k, v) ==
    IF HasOwn(props, k)
    THEN [i \in 1..Len(props) |-> IF props[i].k = k THEN Prop(k, v) ELSE props[i]]
    ELSE Append(props, Prop(k, v))

(***************************************************************************)
(* JSON.stringify                                                          *)
(***************************************************************************)
EscapeChar(c) ==
    CASE c = "\"" -> "\\\""
      [] c = "\\" -> "\\\\"
      [] c = "\n" -> "\\n"
      [] c = "\r" -> "\\r"
      [] c = "\t" -> "\\t"
      [] c = "\f" -> "\\f"
      [] OTHER -> c

\* JSON.stringify(s) for a string s
QuoteJSONString(s) ==
    "\"" \o join([i \in 1..Len(s) |-> EscapeChar(SubSeq(s, i, i))], "") \o "\""

\* JSON.stringify(v, null, 2), at the indentation cur
RECURSIVE SerializeJSON(_, _)
SerializeJSON(x, cur) ==
    LET Member(key, step) ==
            QuoteJSONString(key) \o ": " \o SerializeJSON(Get(x.v, key), step)
        Members(keys, step) ==
            IF Len(keys) = 0 THEN "{}"
            ELSE "{\n" \o step
                 \o join([i \in 1..Len(keys) |-> Member(keys[i], step)], ",\n" \o step)
                 \o "\n" \o cur \o "}"
        Elements(step) ==
            "[\n" \o step
            \o join([i \in 1..Len(x.v) |-> SerializeJSON(x.v[i], step)], ",\n" \o step)
            \o "\n" \o cur \o "]"
    IN  CASE x.t \in {"null", "hole"} -> "null"
          [] x.t = "bool" -> IF x.v THEN "true" ELSE "false"
          [] x.t = "num" -> IF x.v.k = "fin" THEN NumberToString(x.v) ELSE "null"
          [] x.t = "str" -> QuoteJSONString(x.v)
          [] x.t = "arr" -> IF Len(x.v) = 0 THEN "[]" ELSE Elements(cur \o "  ")
          [] x.t = "obj" -> Members(ObjectKeys(x.v), cur \o "  ")

JSONstringify(x) == SerializeJSON(x, "")

(***************************************************************************)
(* JSON.parse: a result is [ok, v, p], p the index after what was read     *)
(***************************************************************************)
JsonWhiteSpace == {" ", "\t", "\n", "\r"}

SkipWs(s, p) ==
    MinOr({ i \in p..(Len(s) - 1) : SubSeq(s, i + 1, i + 1) \notin JsonWhiteSpace },
          IF p > Len(s) THEN p ELSE Len(s))

Fail == [ok |-> FALSE, v |-> Null, p |-> 0]

Ok(v, p) == [ok |-> TRUE, v |-> v, p |-> p]

\* the character of code point n, for \uXXXX; the model's texts hold no
\* escape of a character outside this table
CodePoint(n) ==
    CASE n = 9 -> "\t"
      [] n = 10 -> "\n"
      [] n = 12 -> "\f"
      [] n = 13 -> "\r"
      [] n = 32 -> " "
      [] n = 34 -> "\""
      [] n = 39 -> "'"
      [] n = 44 -> ","
      [] n = 45 -> "-"
      [] n = 46 -> "."
      [] n = 58 -> ":"
      [] n = 92 -> "\\"
      [] n = 95 -> "_"
      [] n >= 48 /\ n <= 57 -> charAt("0123456789", n - 48)
      [] n >= 65 /\ n <= 90 -> charAt("ABCDEFGHIJKLMNOPQRSTUVWXYZ", n - 65)
      [] n >= 97 /\ n <= 122 -> charAt("abcdefghijklmnopqrstuvwxyz", n - 97)
      [] OTHER -> "?"

\* the rest of a string literal, from index p (after the opening quote)
RECURSIVE JsonStringAt(_, _, _)
JsonStringAt(s, p, acc) ==
    LET Unicode(hex) ==
            IF Len(hex) = 4 /\ AllIn(hex, CharsOf("0123456789abcdefABCDEF"))
            THEN JsonStringAt(s, p + 6, acc \o CodePoint(RadixToNat(hex, 16)))
            ELSE Fail
        Escape(e) ==
            IF e \in {"\"", "\\", "/"} THEN JsonStringAt(s, p + 2, acc \o e)
            ELSE IF e = "n" THEN JsonStringAt(s, p + 2, acc \o "\n")
            ELSE IF e = "t" THEN JsonStringAt(s, p + 2, acc \o "\t")
            ELSE IF e = "r" THEN JsonStringAt(s, p + 2, acc \o "\r")
            ELSE IF e = "f" THEN JsonStringAt(s, p + 2, acc \o "\f")
            ELSE IF e = "u" THEN Unicode(substring(s, p + 2, p + 6))
            ELSE Fail
        Char(c) ==
            IF c = "\"" THEN Ok(Str(acc), p + 1)
            ELSE IF c \in {"\t", "\n", "\r", "\f"} THEN Fail
            ELSE IF c # "\\" THEN JsonStringAt(s, p + 1, acc \o c)
            ELSE Escape(charAt(s, p + 1))
    IN  IF p >= Len(s) THEN Fail ELSE Char(charAt(s, p))

\* -? (0 | [1-9][0-9]*) (. [0-9]+)? ([eE] [+-]? [0-9]+)?
JsonNumberAt(s, p) ==
    LET \* p1: the first digit; the other operators give the index after a part
        \* of the number from the index it starts at, -1 when the part is wrong
        ExpDigits(p4, d3) == IF d3 >= 1 THEN p4 + d3 ELSE -1
        ExpSign(p4) == ExpDigits(p4, DigitRun(s, p4))
        Exp(p3) ==
            IF p3 = -1 \/ charAt(s, p3) \notin {"e", "E"} THEN p3
            ELSE ExpSign(IF charAt(s, p3 + 1) \in {"+", "-"} THEN p3 + 2 ELSE p3 + 1)
        FracDigits(p2, d2) == IF d2 >= 1 THEN p2 + 1 + d2 ELSE -1
        Frac(p2) ==
            IF p2 = -1 \/ charAt(s, p2) # "." THEN p2
            ELSE FracDigits(p2, DigitRun(s, p2 + 1))
        IntDigits(p1, d1) ==
            IF d1 >= 1 /\ (d1 = 1 \/ charAt(s, p1) # "0") THEN p1 + d1 ELSE -1
        Literal(p1, p5) ==
            IF p5 = -1 THEN Fail
            ELSE Ok(Num(DecimalLiteral(p1 > p, SubSeq(s, p1 + 1, p5))), p5)
        Signed(p1) == Literal(p1, Exp(Frac(IntDigits(p1, DigitRun(s, p1)))))
    IN  Signed(IF charAt(s, p) = "-" THEN p + 1 ELSE p)

RECURSIVE JsonValueAt(_, _), JsonElementsAt(_, _, _), JsonMembersAt(_, _, _)
JsonValueAt(s, p0) ==
    LET Literal(p, word, v) ==
            IF substring(s, p, p + Len(word)) = word THEN Ok(v, p + Len(word)) ELSE Fail
        Object(q) ==
            IF charAt(s, q) = "}" THEN Ok(Obj(<<>>), q + 1) ELSE JsonMembersAt(s, q, <<>>)
        Array(q) ==
            IF charAt(s, q) = "]" THEN Ok(Arr(<<>>), q + 1) ELSE JsonElementsAt(s, q, <<>>)
        Value(p, c) ==
            CASE c = "{" -> Object(SkipWs(s, p + 1))
              [] c = "[" -> Array(SkipWs(s, p + 1))
              [] c = "\"" -> JsonStringAt(s, p + 1, "")
              [] c = "t" -> Literal(p, "true", Bool(TRUE))
              [] c = "f" -> Literal(p, "false", Bool(FALSE))
              [] c = "n" -> Literal(p, "null", Null)
              [] c = "-" \/ c \in Digits -> JsonNumberAt(s, p)
              [] OTHER -> Fail
        At(p) == Value(p, charAt(s, p))
    IN  At(SkipWs(s, p0))

JsonElementsAt(s, p, acc) ==
    LET Next(r, q, c) ==
            IF c = "," THEN JsonElementsAt(s, q + 1, Append(acc, r.v))
            ELSE IF c = "]" THEN Ok(Arr(Append(acc, r.v)), q + 1)
            ELSE Fail
        After(r, q) == Next(r, q, charAt(s, q))
        Element(r) == IF r.ok THEN After(r, SkipWs(s, r.p)) ELSE Fail
    IN  Element(JsonValueAt(s, p))

JsonMembersAt(s, p, acc) ==
    LET Next(key, r, q, c) ==
            IF c = "," THEN JsonMembersAt(s, q + 1, DefineProp(acc, key.v.v, r.v))
            ELSE IF c = "}" THEN Ok(Obj(DefineProp(acc, key.v.v, r.v)), q + 1)
            ELSE Fail
        After(key, r, q) == Next(key, r, q, charAt(s, q))
        Member(key, r) == IF r.ok THEN After(key, r, SkipWs(s, r.p)) ELSE Fail
        Colon(key, q) == IF charAt(s, q) = ":" THEN Member(key, JsonValueAt(s, q + 1)) ELSE Fail
        Key(key) == IF key.ok THEN Colon(key, SkipWs(s, key.p)) ELSE Fail
        Name(q) == IF charAt(s, q) = "\"" THEN Key(JsonStringAt(s, q + 1, "")) ELSE Fail
    IN  Name(SkipWs(s, p))

\* JSON.parse(s): [ok |-> FALSE] stands for the SyntaxError it throws
JSONparse(s) ==
    LET Whole(r) ==
            IF r.ok /\ SkipWs(s, r.p) = Len(s) THEN [ok |-> TRUE, v |-> r.v]
            ELSE [ok |-> FALSE, v |-> Null]
    IN  Whole(JsonValueAt(s, 0))

\* JSON.parse(s) for a text s whose first character is a quote character: s
\* is one string literal in double quotes, or the parse throws
JSONparseQuoted(s) ==
    LET Whole(r) ==
            IF r.ok /\ SkipWs(s, r.p) = Len(s) THEN [ok |-> TRUE, v |-> r.v]
            ELSE [ok |-> FALSE, v |-> Null]
    IN  Whole(IF charAt(s, 0) = "\"" THEN JsonStringAt(s, 1, "") ELSE Fail)

(***************************************************************************)
(* Results of functions that can throw                                     *)
(***************************************************************************)
Return(text) == [ok |-> TRUE, value |-> text]

Throw(message) == [ok |-> FALSE, value |-> message]

(***************************************************************************)
(* jsonUtils: formatJson, validateJson                                     *)
(***************************************************************************)
formatJson(jsonString) ==
    LET Format(parsed) ==
            IF parsed.ok THEN Return(JSONstringify(parsed.v)) ELSE Throw("Invalid JSON")
    IN  Format(JSONparse(jsonString))

validateJson(jsonString) == JSONparse(jsonString).ok

(***************************************************************************)
(* toonUtils: the serializer, convertToToon                                *)
(***************************************************************************)
\* the typeof data === 'string' branch of toToon
toToonString(data) ==
    IF data = "true" \/ data = "false" \/ data = "null" \/ ~isNaN(Number(data))
    THEN QuoteJSONString(data)
    ELSE IF IsBareString(data) THEN data
    ELSE QuoteJSONString(data)

\* data.every(item => typeof item !== 'object' || item === null)
isSimple(items) == \A i \in 1..Len(items) : IsPrimitive(items[i])

\* formattedKey
formatKey(key) == IF IsBareKey(key) THEN key ELSE QuoteJSONString(key)

\* objStr.replace(new RegExp('^' + itemIndent), indent + '- ')
replaceItemIndent(objStr, itemIndent, indent) ==
    IF startsWith(objStr, itemIndent)
    THEN indent \o "- " \o substringFrom(objStr, Len(itemIndent))
    ELSE objStr

\* `[${value.length}]`
lengthSuffix(value) == "[" \o NatToDigits(Len(value.v)) \o "]"

\* the text the template literals put after a field's value or nested block
fieldTail == " "

RECURSIVE toToon(_, _), toToonItem(_, _), toToonField(_, _, _)
\* one element of a complex array (the callback of data.map)
toToonItem(item, indentLevel) ==
    IF item.t = "obj"
    THEN replaceItemIndent(toToon(item, indentLevel + 1),
                           repeat("  ", indentLevel + 1), repeat("  ", indentLevel))
    ELSE repeat("  ", indentLevel) \o "- " \o toToon(item, 0)

\* one field of an object (the callback of keys.map)
toToonField(key, value, indentLevel) ==
    LET Field(head) ==
            IF value.t = "arr"
            THEN IF isSimple(value.v)
                 THEN IF Len(value.v) = 0
                      THEN head \o lengthSuffix(value) \o ": []"
                      ELSE head \o lengthSuffix(value) \o ": " \o toToon(value, 0) \o fieldTail
                 ELSE IF Len(value.v) = 0
                      THEN head \o lengthSuffix(value) \o ": []"
                      ELSE head \o lengthSuffix(value) \o ":\n" \o toToon(value, indentLevel + 1)
            ELSE IF value.t = "obj"
            THEN IF Len(ObjectKeys(value.v)) = 0
                 THEN head \o ": { }" \o fieldTail
                 ELSE head \o ": \n" \o toToon(value, indentLevel + 1) \o fieldTail
            ELSE head \o ": " \o toToon(value, 0) \o fieldTail
    IN  Field(repeat("  ", indentLevel) \o formatKey(key))

toToon(data, indentLevel) ==
    LET Fields(keys) ==
            IF Len(keys) = 0 THEN "{}"
            ELSE join([i \in 1..Len(keys) |->
                         toToonField(keys[i], Get(data.v, keys[i]), indentLevel)], "\n")
    IN  CASE data.t = "null" -> "null"
          [] data.t = "bool" -> IF data.v THEN "true" ELSE "false"
          [] data.t = "num" -> NumberToString(data.v)
          [] data.t = "str" -> toToonString(data.v)
          [] data.t = "arr" ->
                IF Len(data.v) = 0 THEN "[]"
                ELSE IF isSimple(data.v)
                THEN join([i \in 1..Len(data.v) |-> toToon(data.v[i], 0)], ",")
                ELSE join([i \in 1..Len(data.v) |-> toToonItem(data.v[i], indentLevel)], "\n")
          [] data.t = "obj" -> Fields(ObjectKeys(data.v))

convertToToon(jsonString) ==
    LET Convert(data) ==
            IF data.ok THEN Return(toToon(data.v, 0)) ELSE Throw("Failed to convert to TOON")
    IN  Convert(JSONparse(jsonString))

(***************************************************************************)
(* toonUtils: validateToon                                                 *)
(***************************************************************************)
\* one iteration of the loop: TRUE when the line does not make it return false
validLine(line) ==
    LET Content(content) == startsWith(content, "- ") \/ includes(content, ":")
    IN  \/ trim(line) = ""
        \/ searchNonSpace(line) = -1
        \/ /\ searchNonSpace(line) % 2 = 0
           /\ Content(trim(line))

validateToon(toonString) ==
    LET Lines(lines) == \A i \in 1..Len(lines) : validLine(lines[i])
    IN  Lines(split(toonString, "\n"))

(***************************************************************************)
(* toonUtils: the parser, convertToJson.  The containers under             *)
(* construction are JavaScript objects the stack frames alias, so they     *)
(* live in a heap: a sequence of containers, a child container being held  *)
(* as a reference to its address.  A parser state is [stack, heap, error], *)
(* error standing for an exception on its way to the catch block.          *)
(***************************************************************************)
Ref(a) == [t |-> "ref", v |-> a]

\* a stack entry { obj, indent }; its key field is written and never read
Frame(obj, indent) == [obj |-> obj, indent |-> indent]

\* Array.isArray(x) for the container at address a
isArray(heap, a) == heap[a].t = "arr"

\* arr.push(x)
Push(heap, a, x) == [heap EXCEPT ![a].v = Append(@, x)]

RECURSIVE Pow10(_)
Pow10(e) == IF e = 0 THEN 1 ELSE 10 * Pow10(e - 1)

\* String(y) for an element y of an array that is being assigned: a container
\* among the elements is new, and so empty
elementString(heap, y) ==
    CASE y.t \in {"null", "hole"} -> ""
      [] y.t = "bool" -> IF y.v THEN "true" ELSE "false"
      [] y.t = "num" -> NumberToString(y.v)
      [] y.t = "str" -> y.v
      [] y.t = "ref" -> IF isArray(heap, y.v) THEN "" ELSE "[object Object]"

\* String(c) for a container c
containerString(heap, c) ==
    IF c.t = "arr" THEN join([i \in 1..Len(c.v) |-> elementString(heap, c.v[i])], ",")
    ELSE "[object Object]"

\* ToNumber(x), for the value assigned to the length of an array
ToNumber(heap, x) ==
    CASE x.t = "num" -> x.v
      [] x.t = "bool" -> Finite(FALSE, IF x.v THEN 1 ELSE 0, 0)
      [] x.t = "null" -> Finite(FALSE, 0, 0)
      [] OTHER -> Number(IF x.t = "str" THEN x.v ELSE containerString(heap, heap[x.v]))

\* container[key] = x, as [heap, error].  On an object every key but
\* __proto__ is a data property; __proto__ is the setter inherited from
\* Object.prototype, which creates no own property (a primitive is
\* ignored, and a container becomes the prototype, whose properties
\* neither Object.keys nor JSON.stringify shows).  On an array an
\* index key writes the element and leaves holes before it, length resizes
\* the array or throws a RangeError, and any other key is a property that
\* JSON.stringify does not show.  A valid length is an integer below 2^32;
\* the model's integers stop short of that, and its texts set no length of
\* ten digits.
SetProp(heap, a, key, x) ==
    LET \* the elements after arr[idx - 1] = x, or after arr.length = len
        Items(old, idx, len) ==
            [i \in 1..len |-> IF i = idx THEN x ELSE IF i <= Len(old) THEN old[i] ELSE Hole]
        Length(old, n) ==
            IF n.k = "fin" /\ ~n.neg /\ n.e >= 0 /\ n.e <= 8 /\ n.m < Pow10(9 - n.e)
            THEN [ok |-> TRUE, v |-> Items(old, 0, n.m * Pow10(n.e))]
            ELSE [ok |-> FALSE, v |-> old]
        Index(old, idx) ==
            [ok |-> TRUE, v |-> Items(old, idx, IF idx > Len(old) THEN idx ELSE Len(old))]
        Assigned(old) ==
            IF heap[a].t = "obj"
            THEN [ok |-> TRUE, v |-> IF key = "__proto__" THEN old ELSE DefineProp(old, key, x)]
            ELSE IF IsArrayIndex(key) THEN Index(old, DigitsToNat(key, 10) + 1)
            ELSE IF key = "length" THEN Length(old, ToNumber(heap, x))
            ELSE [ok |-> TRUE, v |-> old]
        Result(r) == [heap |-> [heap EXCEPT ![a].v = r.v], error |-> ~r.ok]
    IN  Result(Assigned(heap[a].v))

\* (s.startsWith('"') && s.endsWith('"')) || (s.startsWith("'") && s.endsWith("'"))
isQuoted(s) ==
    \/ (startsWith(s, "\"") /\ endsWith(s, "\""))
    \/ (startsWith(s, "'") /\ endsWith(s, "'"))

\* parseValue(valueStr), as the value and the heap after it: '[]' and '{}'
\* make a new container
parseValue(heap, valueStr) ==
    LET Plain(v) == [v |-> v, heap |-> heap]
        New(c) == [v |-> Ref(Len(heap) + 1), heap |-> Append(heap, c)]
        Unquote(parsed) ==
            IF parsed.ok THEN parsed.v
            ELSE Str(substring(valueStr, 1, Len(valueStr) - 1))
        \* n is Number(valueStr)
        Scalar(n) ==
            IF /\ ~isNaN(n)
               /\ ~startsWith(valueStr, "\"")
               /\ ~startsWith(valueStr, "'")
               /\ valueStr # ""
            THEN Num(n)
            ELSE IF isQuoted(valueStr)
            THEN Unquote(IF startsWith(valueStr, "\"") THEN JSONparseQuoted(valueStr)
                         ELSE [ok |-> FALSE])
            ELSE Str(valueStr)
    IN  IF valueStr = "true" THEN Plain(Bool(TRUE))
        ELSE IF valueStr = "false" THEN Plain(Bool(FALSE))
        ELSE IF valueStr = "null" THEN Plain(Null)
        ELSE IF valueStr = "[]" THEN New(Arr(<<>>))
        ELSE IF valueStr = "{}" THEN New(Obj(<<>>))
        ELSE Plain(Scalar(Number(valueStr)))

\* the loop of splitByComma from index i on
RECURSIVE splitLoop(_, _, _, _, _, _)
splitLoop(str, i, result, current, inQuote, quoteChar) ==
    LET Step(char, inQ, qc) ==
            IF char = "," /\ ~inQ
            THEN splitLoop(str, i + 1, Append(result, trim(current)), "", inQ, qc)
            ELSE splitLoop(str, i + 1, result, current \o char, inQ, qc)
        Quote(char, isQuote) ==
            IF isQuote /\ ~inQuote THEN Step(char, TRUE, char)
            ELSE IF isQuote /\ char = quoteChar THEN Step(char, FALSE, quoteChar)
            ELSE Step(char, inQuote, quoteChar)
        Char(char) ==
            Quote(char, (char = "\"" \/ char = "'") /\ (i = 0 \/ charAt(str, i - 1) # "\\"))
    IN  IF i >= Len(str) THEN Append(result, trim(current)) ELSE Char(charAt(str, i))

splitByComma(str) == splitLoop(str, 0, <<>>, "", FALSE, "")

\* parts.map(parseValue): the values and the heap after them
RECURSIVE mapParseValue(_, _, _)
mapParseValue(heap, parts, vs) ==
    LET Rest(r) == mapParseValue(r.heap, Tail(parts), Append(vs, r.v))
    IN  IF Len(parts) = 0 THEN [vs |-> vs, heap |-> heap]
        ELSE Rest(parseValue(heap, parts[1]))

\* key.replace(/\[\d+\]$/, '')
stripLength(key) ==
    LET Cut(open) == IF endsWith(key, "]") /\ open # {}
                     THEN substring(key, 0, SetMin(open)) ELSE key
    IN  Cut({ i \in 0..(Len(key) - 3) :
                /\ charAt(key, i) = "["
                /\ AllIn(substring(key, i + 1, Len(key) - 1), Digits) })

\* key.replace(/^["']|["']$/g, '')
stripQuotes(key) ==
    LET Cut(a) == IF Len(key) > a /\ charAt(key, Len(key) - 1) \in {"\"", "'"}
                  THEN substring(key, a, Len(key) - 1)
                  ELSE substring(key, a, Len(key))
    IN  Cut(IF charAt(key, 0) \in {"\"", "'"} THEN 1 ELSE 0)

\* /^["']?[\w\d_]+["']?$/.test(keyPart) || /^"[^"]+"$/.test(keyPart)
looksLikeKey(keyPart) ==
    LET WordRun(t) == Len(t) >= 1 /\ AllIn(t, WordChars)
        Word(a) ==
            \/ WordRun(substringFrom(keyPart, a))
            \/ /\ Len(keyPart) > a
               /\ charAt(keyPart, Len(keyPart) - 1) \in {"\"", "'"}
               /\ WordRun(substring(keyPart, a, Len(keyPart) - 1))
    IN  \/ Word(0)
        \/ charAt(keyPart, 0) \in {"\"", "'"} /\ Word(1)
        \/ /\ Len(keyPart) >= 3
           /\ startsWith(keyPart, "\"")
           /\ endsWith(keyPart, "\"")
           /\ ~includes(substring(keyPart, 1, Len(keyPart) - 1), "\"")

\* the lookahead of processValue: the line after lines[i] is a list item
\* indented at least indent
isNextArray(indent, lines, i) ==
    /\ i + 1 <= Len(lines)
    /\ searchNonSpace(lines[i + 1]) >= indent
    /\ startsWith(trim(lines[i + 1]), "- ")

\* processValue(container, key, valueStr, indent, stack, lines, currentIndex);
\* i is the 1-based index of the current line
processValue(st, container, key, valueStr, indent, lines, i) ==
    LET \* a new container, and the array of the values of an inline list
        New(c) == [v |-> Ref(Len(st.heap) + 1), heap |-> Append(st.heap, c)]
        List(r) == [v |-> Ref(Len(r.heap) + 1), heap |-> Append(r.heap, Arr(r.vs))]
        \* container[key] = r.v, and the stack the call leaves
        Assigned(r, stack) ==
            [stack |-> stack, heap |-> r.heap, error |-> st.error \/ r.error]
        Assign(r, stack) == Assigned(SetProp(r.heap, container, key, r.v), stack)
    IN  Assign(IF valueStr = ""
               THEN New(IF isNextArray(indent, lines, i) THEN Arr(<<>>) ELSE Obj(<<>>))
               ELSE IF valueStr = "[]" THEN New(Arr(<<>>))
               ELSE IF valueStr = "{}" THEN New(Obj(<<>>))
               ELSE IF /\ includes(valueStr, ",")
                       /\ ~(isQuoted(valueStr) /\ JSONparseQuoted(valueStr).ok)
               THEN List(mapParseValue(st.heap, splitByComma(valueStr), <<>>))
               ELSE parseValue(st.heap, valueStr),
               IF valueStr = "" THEN Append(st.stack, Frame(Len(st.heap) + 1, indent))
               ELSE st.stack)

\* the while loop with a frame of the line's own indentation kept
RECURSIVE popFramesInclusive(_, _, _, _)
popFramesInclusive(stack, heap, indent, content) ==
    LET Top(top) ==
            IF top.indent <= indent THEN stack
            ELSE IF top.indent = indent /\ isArray(heap, top.obj) /\ startsWith(content, "- ")
            THEN stack
            ELSE popFramesInclusive(SubSeq(stack, 1, Len(stack) - 1), heap, indent, content)
    IN  IF Len(stack) <= 1 THEN stack ELSE Top(stack[Len(stack)])

\* the while loop with a test for inequality: it stops at a frame indented
\* deeper than the line too
RECURSIVE popFramesDeeper(_, _, _, _)
popFramesDeeper(stack, heap, indent, content) ==
    LET Top(top) ==
            IF top.indent # indent THEN stack
            ELSE IF top.indent = indent /\ isArray(heap, top.obj) /\ startsWith(content, "- ")
            THEN stack
            ELSE popFramesDeeper(SubSeq(stack, 1, Len(stack) - 1), heap, indent, content)
    IN  IF Len(stack) <= 1 THEN stack ELSE Top(stack[Len(stack)])

\* the while loop that finds the parent frame
RECURSIVE popFrames(_, _, _, _)
popFrames(stack, heap, indent, content) ==
    LET Top(top) ==
            IF top.indent < indent THEN stack
            ELSE IF top.indent = indent /\ isArray(heap, top.obj) /\ startsWith(content, "- ")
            THEN stack
            ELSE popFrames(SubSeq(stack, 1, Len(stack) - 1), heap, indent, content)
    IN  IF Len(stack) <= 1 THEN stack ELSE Top(stack[Len(stack)])

\* the root-level list special case: stack[0].obj and parent.obj become a
\* new, empty array (the frame of indent -1 is stack[0])
coerceRoot(st) ==
    LET Parent(parent) ==
            IF /\ ~isArray(st.heap, parent.obj)
               /\ parent.indent = -1
               /\ Len(ObjectKeys(st.heap[parent.obj].v)) = 0
            THEN [stack |-> [st.stack EXCEPT ![1].obj = Len(st.heap) + 1],
                  heap |-> Append(st.heap, Arr(<<>>)),
                  error |-> st.error]
            ELSE st
    IN  Parent(st.stack[Len(st.stack)])

\* a line that starts with "- ": st is the state after the pop loop and the
\* root special case
processItem(st, valueStr, indent, lines, i) ==
    LET \* newContainer = {}, pushed to the parent when that is an array, and
        \* its frame
        Opened(parent, new) ==
            [stack |-> Append(st.stack, Frame(new, indent)),
             heap |-> IF isArray(st.heap, parent.obj)
                      THEN Push(Append(st.heap, Obj(<<>>)), parent.obj, Ref(new))
                      ELSE Append(st.heap, Obj(<<>>)),
             error |-> st.error]
        Primitive(parent, value) ==
            IF isArray(st.heap, parent.obj)
            THEN [st EXCEPT !.heap = Push(value.heap, parent.obj, value.v)]
            ELSE [st EXCEPT !.heap = value.heap]
        KeyValue(parent, new, colonIndex) ==
            processValue(Opened(parent, new), new,
                         stripQuotes(stripLength(trim(substring(valueStr, 0, colonIndex)))),
                         trim(substringFrom(valueStr, colonIndex + 1)),
                         indent + 2, lines, i)
        Item(parent, colonIndex) ==
            IF valueStr = "" THEN Opened(parent, Len(st.heap) + 1)
            ELSE IF colonIndex # -1 /\ looksLikeKey(substring(valueStr, 0, colonIndex))
            THEN KeyValue(parent, Len(st.heap) + 1, colonIndex)
            ELSE Primitive(parent, parseValue(st.heap, valueStr))
    IN  Item(st.stack[Len(st.stack)], indexOf(valueStr, ":"))

\* a line that does not start with "- ": st is the state after the pop loop
processField(st, content, indent, lines, i) ==
    LET \* finalKey is [ok, v]: JSON.parse(cleanKey) when cleanKey is quoted
        Value(finalKey, colonIndex) ==
            IF finalKey.ok
            THEN processValue(st, st.stack[Len(st.stack)].obj, finalKey.v.v,
                              trim(substringFrom(content, colonIndex + 1)), indent, lines, i)
            ELSE [st EXCEPT !.error = TRUE]
        Key(cleanKey, colonIndex) ==
            Value(IF startsWith(cleanKey, "\"") /\ endsWith(cleanKey, "\"")
                  THEN JSONparseQuoted(cleanKey)
                  ELSE [ok |-> TRUE, v |-> Str(cleanKey)],
                  colonIndex)
        Field(colonIndex) ==
            IF colonIndex = -1 THEN st
            ELSE Key(stripLength(trim(substring(content, 0, colonIndex))), colonIndex)
    IN  Field(indexOf(content, ":"))

\* the body of the loop over lines, for lines[i] (1-based)
processLine(st, lines, i) ==
    The({ IF startsWith(content, "- ")
          THEN The({ processItem(parent, valueStr, indent, lines, i) :
                       parent \in {coerceRoot(popped)},
                       valueStr \in {trim(substringFrom(content, 2))} })
          ELSE processField(popped, content, indent, lines, i) :
            indent \in {searchNonSpace(lines[i])}, content \in {trim(lines[i])},
            popped \in {[st EXCEPT !.stack = popFrames(st.stack, st.heap,
                                                        searchNonSpace(lines[i]),
                                                        trim(lines[i]))]} })

\* toonString.split('\n').filter(line => line.trim() !== '')
nonBlankLines(toonString) ==
    LET NonBlank(line) == trim(line) # ""
    IN  SelectSeq(split(toonString, "\n"), NonBlank)

\* root = {} and stack = [{ obj: root, indent: -1 }]
initialParse == [stack |-> <<Frame(1, -1)>>, heap |-> <<Obj(<<>>)>>, error |-> FALSE]

\* the value a container of the heap denotes
RECURSIVE Deref(_, _)
Deref(heap, x) ==
    IF x.t = "ref" THEN Deref(heap, heap[x.v])
    ELSE IF x.t = "arr" THEN Arr([i \in 1..Len(x.v) |-> Deref(heap, x.v[i])])
    ELSE IF x.t = "obj" THEN Obj([i \in 1..Len(x.v) |-> Prop(x.v[i].k, Deref(heap, x.v[i].v))])
    ELSE x

\* stack[0].obj as a value
rootValue(st) == Deref(st.heap, Ref(st.stack[1].obj))

\* a faulty return: the container of the top frame is rendered
parseResultTop(st) ==
    JSONstringify(Deref(st.heap, Ref(st.stack[Len(st.stack)].obj)))

\* JSON.stringify(stack[0].obj, null, 2)
parseResult(st) == JSONstringify(rootValue(st))

\* the loop from line i on
RECURSIVE parseLoop(_, _, _)
parseLoop(st, lines, i) ==
    IF i > Len(lines) \/ st.error THEN st
    ELSE The({ parseLoop(next, lines, i + 1) : next \in {processLine(st, lines, i)} })

convertToJson(toonString) ==
    The({ IF Len(lines) = 0 THEN Return("{}")
          ELSE The({ IF final.error THEN Throw("Failed to convert to JSON")
                     ELSE Return(parseResult(final)) :
                       final \in {parseLoop(initialParse, lines, 1)} }) :
            lines \in {nonBlankLines(toonString)} })
(***************************************************************************)
(* jsonRepairUtils: repairJson, balanceBrackets.  jsonrepair is a library: *)
(* what it returns or throws for a text is the environment's choice, and   *)
(* repairJson takes the outcomes of its two calls as arguments.            *)
(***************************************************************************)
\* the number of characters c in str
countChar(str, c) == Cardinality({ i \in 1..Len(str) : SubSeq(str, i, i) = c })

\* a faulty balanceBrackets: a closer for every opener, the closers that the
\* text has forgotten
balanceBracketsAll(str) ==
    str \o repeat("}", countChar(str, "{")) \o repeat("]", countChar(str, "["))

balanceBrackets(str) ==
    str \o repeat("}", countChar(str, "{") - countChar(str, "}"))
        \o repeat("]", countChar(str, "[") - countChar(str, "]"))

\* formatJson(repaired), repaired being what jsonrepair returned; its throw
\* is passed on
formatRepaired(outcome) ==
    IF outcome.ok THEN formatJson(outcome.value) ELSE outcome

\* a faulty repairJson: the second attempt returns what jsonrepair returned,
\* without formatJson
repairJsonUnformatted(jsonString, first, second) ==
    LET Retry(r) == IF r.ok THEN r ELSE Throw("Unable to repair JSON")
        Try(r) == IF r.ok THEN r ELSE Retry(second)
    IN  Try(formatRepaired(first))

\* first: the outcome of jsonrepair(jsonString); second: the outcome of
\* jsonrepair(balanced), which is called when the first attempt throws
repairJson(jsonString, first, second) ==
    LET Retry(r) == IF r.ok THEN r ELSE Throw("Unable to repair JSON")
        Try(r) == IF r.ok THEN r ELSE Retry(formatRepaired(second))
    IN  Try(formatRepaired(first))

\* the calls of jsonrepair that repairJson makes: the text given and the
\* outcome
repairCalls(jsonString, first, second) ==
    LET Calls(r) ==
            IF r.ok THEN <<[text |-> jsonString, outcome |-> first]>>
            ELSE <<[text |-> jsonString, outcome |-> first],
                   [text |-> balanceBrackets(jsonString), outcome |-> second]>>
    IN  Calls(formatRepaired(first))

(***************************************************************************)
(* The inputs the model draws.  A JSON document is written as text with    *)
(* the members of every object in the order given, so that the order of    *)
(* the keys in the input text is part of the input.                        *)
(***************************************************************************)
RECURSIVE WriteJson(_)
WriteJson(doc) ==
    LET Member(p) == QuoteJSONString(p.k) \o ":" \o WriteJson(p.v)
    IN  CASE doc.t = "null" -> "null"
          [] doc.t = "bool" -> IF doc.v THEN "true" ELSE "false"
          [] doc.t = "num" -> NumberToString(doc.v)
          [] doc.t = "str" -> QuoteJSONString(doc.v)
          [] doc.t = "arr" ->
                "[" \o join([i \in 1..Len(doc.v) |-> WriteJson(doc.v[i])], ",") \o "]"
          [] doc.t = "obj" ->
                "{" \o join([i \in 1..Len(doc.v) |-> Member(doc.v[i])], ",") \o "}"

IntNum(n) == Num(Finite(n < 0, IF n < 0 THEN 0 - n ELSE n, 0))

\* the largest number of nodes (scalars and containers) of a generated document
MaxNodes == 3

\* the longest generated string
MaxStrLen == 2

Atoms == {Null, IntNum(1), Str("a"), Str("x, y")}

Keys == {"k", "n"}

\* the sequences of n distinct keys
KeySeqs(n) == { ks \in [1..n -> Keys] : \A i, j \in 1..n : i # j => ks[i] # ks[j] }

\* DocsOfSize(n): the documents of exactly n nodes; DocSeqs(n): the non-empty
\* sequences of documents of n nodes in all
RECURSIVE DocsOfSize(_), DocSeqs(_)
DocsOfSize(n) ==
    IF n = 1 THEN Atoms \cup {Arr(<<>>), Obj(<<>>)}
    ELSE { Arr(ds) : ds \in DocSeqs(n - 1) } \cup
         UNION { { Obj([i \in 1..Len(ds) |-> Prop(ks[i], ds[i])]) : ks \in KeySeqs(Len(ds)) } :
                    ds \in DocSeqs(n - 1) }

DocSeqs(n) ==
    IF n = 0 THEN {}
    ELSE { <<d>> : d \in DocsOfSize(n) } \cup
         UNION { { <<d>> \o rest : d \in DocsOfSize(m), rest \in DocSeqs(n - m) } :
                    m \in 1..(n - 1) }

GeneratedDocs == UNION { DocsOfSize(n) : n \in 1..MaxNodes }

\* the strings over a small alphabet, up to MaxStrLen characters
StrAlphabet == {"a", "1", ".", "_", "e", "-", " ", ","}

RECURSIVE StringsOfLen(_)
StringsOfLen(n) ==
    IF n = 0 THEN {""} ELSE { s \o c : s \in StringsOfLen(n - 1), c \in StrAlphabet }

GeneratedStrings == UNION { StringsOfLen(n) : n \in 0..MaxStrLen }

NamedStrings ==
    {"true", "false", "null", "True", "Alice", "v1.0", "1.2.3", "85", "1.50", "1e3",
     "Infinity", "NaN", "0x1F", "a:b", "a\"b", "it's", "a\\", "a\nb", "k[2]", "{}", "[]"}

StrPool == GeneratedStrings \cup NamedStrings

ExampleDoc ==
    Obj(<<Prop("user", Obj(<<Prop("name", Str("Alice")), Prop("active", Bool(TRUE))>>)),
          Prop("scores", Arr(<<IntNum(85), IntNum(92), IntNum(78)>>))>>)

\* objects whose keys come in every order, digit strings among them
OrderKeys == {"b", "a", "2", "10", "01"}

KeyOrderDocs ==
    { Obj(<<Prop(ks[1], IntNum(1)), Prop(ks[2], IntNum(2)), Prop(ks[3], IntNum(3))>>) :
        ks \in { s \in [1..3 -> OrderKeys] : s[1] # s[2] /\ s[1] # s[3] /\ s[2] # s[3] } }
    \cup { Obj(<<Prop("o", Obj(<<Prop(ks[1], IntNum(1)), Prop(ks[2], IntNum(2))>>))>>) :
             ks \in { s \in [1..2 -> OrderKeys] : s[1] # s[2] } }

NamedDocs ==
    {ExampleDoc,
     Obj(<<Prop("__proto__", IntNum(1)), Prop("k", IntNum(2))>>),
     Obj(<<Prop("k", IntNum(1)), Prop("k", IntNum(2))>>),
     Obj(<<Prop("k", Arr(<<IntNum(1)>>))>>),
     Obj(<<Prop("a b", IntNum(1)), Prop("a:b", IntNum(2)), Prop("k[2]", IntNum(3))>>),
     Arr(<<Obj(<<Prop("k", Arr(<<IntNum(1), IntNum(2)>>)), Prop("n", IntNum(3))>>)>>),
     Arr(<<Arr(<<IntNum(1), IntNum(2)>>), Arr(<<IntNum(3), IntNum(4)>>)>>),
     Arr(<<Str("a:b"), Obj(<<>>), Arr(<<>>)>>),
     Obj(<<Prop("k", Arr(<<Str("a\\"), Str("b")>>)),
           Prop("n", Arr(<<Str("x, y"), Str("it's"), Str("a\"b")>>))>>),
     Obj(<<Prop("k", Obj(<<Prop("n", Obj(<<Prop("k", Num(Finite(TRUE, 15, -1)))>>))>>)),
           Prop("n", Arr(<<Obj(<<Prop("k", Obj(<<Prop("n", Null)>>)), Prop("n", Bool(FALSE))>>),
                           IntNum(7)>>))>>)}

JsonDocs ==
    GeneratedDocs \cup NamedDocs \cup KeyOrderDocs
    \cup { Str(s) : s \in StrPool } \cup { Obj(<<Prop("k", Str(s))>>) : s \in StrPool }
    \cup { Obj(<<Prop("k", Arr(<<Str(s), Str("b")>>))>>) : s \in NamedStrings }

\* texts that are not JSON
BrokenJson == {"", "{\"a\":1,}", "{\"a\":[1,2", "[1,2]]", "{a:1}"}

JsonTexts == { WriteJson(d) : d \in JsonDocs } \cup BrokenJson

\* TOON texts given to the validator and to the parser as they are
ToonTexts ==
    {"", "{}", "[]", "a: 1\n b: 2", "a: 1\n  b: 2", "\ta: 1", " \ta: 1", "- x\n\n- y", "-", "x",
     "k[2]: 1,2", "k[3]: 1,2", "- k[2]: 1,2", "- k[3]: 1,2", "a:\n  - k[1]:\n    - 1",
     "\"a b\"[2]: 1,2\nn: 'x'", "a:\n  - 1\n  b: 2\n  - 3", "\": 1", "- 1\nlength: x",
     "a: 1\n- 2", "a: 1\n- b: 2\n  c: 3",
     "- 1\n0: 5", "- 1\nlength: 0", "- a: 1\n  b: 2\n- 3",
     "- 1\n-\n  a: 2", "- 1\n- \n  a: 2",
     "- \"a:b\"", "- \"a 1\"", "- \"it's\"",
     "k:\n- 1", "a:\n  b:\n- 1", "k:\n  n:\nk: 1", "__proto__:\n  a: 1",
     "a: Infinity", "a: -Infinity", "a: NaN", "a: 0x1F", "a: -1.50", "a: 1e3", "a: true",
     "a: false", "a: null", "a: True", "a: v1.0", "a: 1.2.3", "a: -", "a: x y",
     "a:\n  b: 1\nx\n  c: 2", "a:\n  b: 1\n  x\n  c: 2", "a:\nx\n  - 1"}

\* the texts given to repairJson
RepairTexts == BrokenJson \cup {"{\"a\":1}", "[[1,{"}

\* what a call of jsonrepair may do: return a text, JSON or not, or throw
RepairOutcomes ==
    { Return(t) : t \in {"{}", "{\"a\":[1,2]}", "[1, 2]", "\"a\"", "{\"a\":1,}", "{a:1}", ""} }
    \cup {Throw("JSONRepairError")}


(***************************************************************************)
(* App: the handlers of the editor.  app is the state the component keeps  *)
(* (inputContent, outputContent, error, conversionMode); a handler yields  *)
(* the state it leaves, the calls of repairJson it made, and whether it    *)
(* ended by setting an error message.  The editor is mounted and its       *)
(* setValue does not throw.                                                *)
(***************************************************************************)
NoError == [set |-> FALSE, message |-> ""]

Error(message) == [set |-> TRUE, message |-> message]

App(inputContent, outputContent, error, conversionMode) ==
    [inputContent |-> inputContent, outputContent |-> outputContent,
     error |-> error, conversionMode |-> conversionMode]

\* a handler that returns without a set call
Returned(app, repairs) == [app |-> app, repairs |-> repairs, reported |-> FALSE]

\* a handler that ends with setError(message)
Reported(app, message, repairs) ==
    [app |-> [app EXCEPT !.error = Error(message)], repairs |-> repairs, reported |-> TRUE]

\* setInputContent(content); setError(null)
InputSet(app, content, repairs) ==
    [app |-> [app EXCEPT !.inputContent = content, !.error = NoError],
     repairs |-> repairs, reported |-> FALSE]

\* setOutputContent(content); setError(null)
OutputSet(app, content, repairs) ==
    [app |-> [app EXCEPT !.outputContent = content, !.error = NoError],
     repairs |-> repairs, reported |-> FALSE]

\* a call of repairJson: the mode it was made in and the text it was given
Repair(app) == [mode |-> app.conversionMode, text |-> app.inputContent]

handleFormat(app) ==
    LET Set(r) ==
            IF r.ok THEN InputSet(app, r.value, <<>>)
            ELSE Reported(app, "Unable to format: " \o r.value, <<>>)
    IN  IF trim(app.inputContent) = "" THEN Returned(app, <<>>)
        ELSE IF app.conversionMode = "json-to-toon"
        THEN The({ Set(formatted) : formatted \in {formatJson(app.inputContent)} })
        ELSE IF validateJson(app.inputContent)
        THEN Reported(app, "Input appears to be JSON. Switch to \"JSON to TOON\" mode to format.", <<>>)
        ELSE IF ~validateToon(app.inputContent)
        THEN Reported(app, "Invalid TOON format: Check indentation (2 spaces) and syntax (key: value or - item)", <<>>)
        ELSE The({ IF json.ok THEN The({ Set(toon) : toon \in {convertToToon(json.value)} })
                   ELSE Set(json) :
                     json \in {convertToJson(app.inputContent)} })

handleRepair(app, first, second) ==
    LET Set(r) ==
            IF r.ok THEN InputSet(app, r.value, <<Repair(app)>>)
            ELSE Reported(app, "Repair Failed: Unable to fix JSON", <<Repair(app)>>)
    IN  IF app.conversionMode # "json-to-toon" THEN Returned(app, <<>>)
        ELSE IF trim(app.inputContent) = "" THEN Returned(app, <<>>)
        ELSE The({ Set(repaired) : repaired \in {repairJson(app.inputContent, first, second)} })

\* a faulty handleConvert: it clears the output when it reports an error
handleConvertClearing(app, first, second) ==
    LET Failed(message, repairs) == Reported([app EXCEPT !.outputContent = ""], message, repairs)
        Set(r, repairs) ==
            IF r.ok THEN OutputSet(app, r.value, repairs)
            ELSE Failed("Conversion Failed: " \o r.value, repairs)
    IN  IF trim(app.inputContent) = "" THEN Returned(app, <<>>)
        ELSE IF app.conversionMode # "json-to-toon"
        THEN IF ~validateToon(app.inputContent) THEN Failed("Invalid TOON format: Check indentation (2 spaces) and syntax (key: value or - item)", <<>>)
             ELSE The({ IF json.ok
                        THEN The({ Set(formattedJson, <<>>) :
                                     formattedJson \in {formatJson(json.value)} })
                        ELSE Set(json, <<>>) :
                          json \in {convertToJson(app.inputContent)} })
        ELSE IF validateJson(app.inputContent)
        THEN The({ Set(toon, <<>>) : toon \in {convertToToon(app.inputContent)} })
        ELSE The({ IF repaired.ok
                   THEN The({ Set(toon, <<Repair(app)>>) :
                                toon \in {convertToToon(repaired.value)} })
                   ELSE Failed("Invalid JSON: Please fix errors before converting",
                               <<Repair(app)>>) :
                     repaired \in {repairJson(app.inputContent, first, second)} })

\* a faulty handleConvert: it repairs the input without validating it first
handleConvertRepairing(app, first, second) ==
    LET Failed(message, repairs) == Reported(app, message, repairs)
        Set(r, repairs) ==
            IF r.ok THEN OutputSet(app, r.value, repairs)
            ELSE Failed("Conversion Failed: " \o r.value, repairs)
    IN  IF trim(app.inputContent) = "" THEN Returned(app, <<>>)
        ELSE IF app.conversionMode # "json-to-toon"
        THEN IF ~validateToon(app.inputContent) THEN Failed("Invalid TOON format: Check indentation (2 spaces) and syntax (key: value or - item)", <<>>)
             ELSE The({ IF json.ok
                        THEN The({ Set(formattedJson, <<>>) :
                                     formattedJson \in {formatJson(json.value)} })
                        ELSE Set(json, <<>>) :
                          json \in {convertToJson(app.inputContent)} })
        ELSE The({ IF repaired.ok
                   THEN The({ Set(toon, <<Repair(app)>>) :
                                toon \in {convertToToon(repaired.value)} })
                   ELSE Failed("Invalid JSON: Please fix errors before converting",
                               <<Repair(app)>>) :
                     repaired \in {repairJson(app.inputContent, first, second)} })

handleConvert(app, first, second) ==
    LET Failed(message, repairs) == Reported(app, message, repairs)
        Set(r, repairs) ==
            IF r.ok THEN OutputSet(app, r.value, repairs)
            ELSE Failed("Conversion Failed: " \o r.value, repairs)
    IN  IF trim(app.inputContent) = "" THEN Returned(app, <<>>)
        ELSE IF app.conversionMode # "json-to-toon"
        THEN IF ~validateToon(app.inputContent) THEN Failed("Invalid TOON format: Check indentation (2 spaces) and syntax (key: value or - item)", <<>>)
             ELSE The({ IF json.ok
                        THEN The({ Set(formattedJson, <<>>) :
                                     formattedJson \in {formatJson(json.value)} })
                        ELSE Set(json, <<>>) :
                          json \in {convertToJson(app.inputContent)} })
        ELSE IF validateJson(app.inputContent)
        THEN The({ Set(toon, <<>>) : toon \in {convertToToon(app.inputContent)} })
        ELSE The({ IF repaired.ok
                   THEN The({ Set(toon, <<Repair(app)>>) :
                                toon \in {convertToToon(repaired.value)} })
                   ELSE Failed("Invalid JSON: Please fix errors before converting",
                               <<Repair(app)>>) :
                     repaired \in {repairJson(app.inputContent, first, second)} })

\* the texts the user enters in the editor
EditorTexts ==
    {"", " ", "{\"a\":1}", "{\"a\":1,}", "[1,{", "5", "a: 1", "a: 1\n b: 2", "- 1\n- 2",
     "x", "- 1\nlength: x"}

\* what jsonrepair may do when a handler calls repairJson: return a JSON
\* text, return a text that is no JSON, or throw
FixerOutcomes == {Return("[1, 2]"), Return("{a:1}"), Throw("JSONRepairError")}
(***************************************************************************)
(* The state machine.  One call is in progress at a time: json is the text *)
(* given to convertToToon or repairJson, toon the text given to            *)
(* validateToon and convertToJson, roundTrip says that toon is what        *)
(* convertToToon returned for json; lines, i and st are the parser's       *)
(* locals between two lines; calls are the calls of jsonrepair.  The other *)
(* variables are the state of App and, in handled, the handler that ran    *)
(* last: the state it started from, the calls of repairJson it made and    *)
(* whether it ended with an error message.                                 *)
(***************************************************************************)
VARIABLES pc, json, toon, roundTrip, lines, i, st, valid, calls, result,
          inputContent, outputContent, error, conversionMode, handled

vars == <<pc, json, toon, roundTrip, lines, i, st, valid, calls, result,
          inputContent, outputContent, error, conversionMode, handled>>

codec == <<json, toon, roundTrip, lines, i, st, valid, calls, result>>

ui == <<inputContent, outputContent, error, conversionMode, handled>>

\* the state of App
app == App(inputContent, outputContent, error, conversionMode)

\* no handler has run since the content was last edited
NoHandler ==
    [handler |-> "", before |-> App("", "", NoError, "json-to-toon"),
     repairs |-> <<>>, reported |-> FALSE]

\* useState('') ..., useState<ConversionMode>('json-to-toon')
Mounted ==
    /\ inputContent = ""
    /\ outputContent = ""
    /\ error = NoError
    /\ conversionMode = "json-to-toon"
    /\ handled = NoHandler

Init ==
    /\ pc = "idle"
    /\ json = ""
    /\ toon = ""
    /\ roundTrip = FALSE
    /\ lines = <<>>
    /\ i = 0
    /\ st = initialParse
    /\ valid = FALSE
    /\ calls = <<>>
    /\ result = Return("")
    /\ Mounted

\* convertToToon(json)
ConvertToToon ==
    /\ pc = "idle"
    /\ \E j \in JsonTexts : \E r \in {convertToToon(j)} :
          /\ json' = j
          /\ result' = r
          /\ toon' = IF r.ok THEN r.value ELSE ""
          /\ roundTrip' = r.ok
    /\ pc' = "toon"
    /\ UNCHANGED <<lines, i, st, valid, calls, ui>>

\* the text the next call gets: a text of ToonTexts, or the text that
\* convertToToon has returned
ToonInputs ==
    IF pc = "idle" THEN ToonTexts
    ELSE IF pc = "toon" /\ result.ok THEN {toon}
    ELSE {}

\* validateToon(toon)
ValidateToon ==
    /\ \E t \in ToonInputs :
          /\ toon' = t
          /\ valid' = validateToon(t)
    /\ pc' = "validated"
    /\ UNCHANGED <<json, roundTrip, lines, i, st, calls, result, ui>>

\* convertToJson(toon) up to its loop; no line at all returns '{}'
ConvertToJsonBegin ==
    /\ \E t \in ToonInputs : \E ls \in {nonBlankLines(t)} :
          /\ toon' = t
          /\ lines' = ls
          /\ pc' = IF Len(ls) = 0 THEN "parsed" ELSE "parsing"
          /\ result' = IF Len(ls) = 0 THEN Return("{}") ELSE result
    /\ i' = 1
    /\ st' = initialParse
    /\ UNCHANGED <<json, roundTrip, valid, calls, ui>>

\* one iteration of the loop of convertToJson; an exception ends the call
ConvertToJsonLine ==
    /\ pc = "parsing"
    /\ i <= Len(lines)
    /\ \E s \in {processLine(st, lines, i)} :
          /\ st' = s
          /\ pc' = IF s.error THEN "parsed" ELSE pc
          /\ result' = IF s.error THEN Throw("Failed to convert to JSON") ELSE result
    /\ i' = i + 1
    /\ UNCHANGED <<json, toon, roundTrip, lines, valid, calls, ui>>

\* the return of convertToJson after the last line
ConvertToJsonReturn ==
    /\ pc = "parsing"
    /\ i > Len(lines)
    /\ pc' = "parsed"
    /\ result' = Return(parseResult(st))
    /\ UNCHANGED <<json, toon, roundTrip, lines, i, st, valid, calls, ui>>

\* repairJson(json), with what jsonrepair does on its first and second call
RepairJson ==
    /\ pc = "idle"
    /\ \E t \in RepairTexts, first \in RepairOutcomes, second \in RepairOutcomes :
          /\ json' = t
          /\ calls' = repairCalls(t, first, second)
          /\ result' = repairJson(t, first, second)
    /\ pc' = "repaired"
    /\ UNCHANGED <<toon, roundTrip, lines, i, st, valid, ui>>

\* the component after it is mounted; no call of the codec is in progress
AppInit ==
    /\ pc = "app"
    /\ json = ""
    /\ toon = ""
    /\ roundTrip = FALSE
    /\ lines = <<>>
    /\ i = 0
    /\ st = initialParse
    /\ valid = FALSE
    /\ calls = <<>>
    /\ result = Return("")
    /\ Mounted

\* the state a handler leaves
Handled(name, r) ==
    /\ inputContent' = r.app.inputContent
    /\ outputContent' = r.app.outputContent
    /\ error' = r.app.error
    /\ conversionMode' = r.app.conversionMode
    /\ handled' = [handler |-> name, before |-> app,
                   repairs |-> r.repairs, reported |-> r.reported]
    /\ UNCHANGED <<pc, codec>>

\* the editor's onChange: the user has typed or pasted a text
OnChange ==
    /\ pc = "app"
    /\ \E value \in EditorTexts : inputContent' = value
    /\ error' = NoError
    /\ handled' = NoHandler
    /\ UNCHANGED <<pc, codec, outputContent, conversionMode>>

HandleClear ==
    /\ pc = "app"
    /\ inputContent' = ""
    /\ error' = NoError
    /\ handled' = NoHandler
    /\ UNCHANGED <<pc, codec, outputContent, conversionMode>>

ToggleConversionMode ==
    /\ pc = "app"
    /\ conversionMode' = IF conversionMode = "json-to-toon" THEN "toon-to-json" ELSE "json-to-toon"
    /\ inputContent' = ""
    /\ outputContent' = ""
    /\ error' = NoError
    /\ handled' = NoHandler
    /\ UNCHANGED <<pc, codec>>

HandleFormat ==
    /\ pc = "app"
    /\ \E r \in {handleFormat(app)} : Handled("handleFormat", r)

\* what a call of jsonrepair by a handler may do
Fixer == IF conversionMode = "json-to-toon" THEN FixerOutcomes ELSE {Throw("JSONRepairError")}

\* the button of handleRepair is rendered in the JSON to TOON mode only
HandleRepair ==
    /\ pc = "app"
    /\ conversionMode = "json-to-toon"
    /\ \E first \in FixerOutcomes, second \in FixerOutcomes :
          \E r \in {handleRepair(app, first, second)} : Handled("handleRepair", r)

\* jsonrepair is called in the JSON to TOON mode only
HandleConvert ==
    /\ pc = "app"
    /\ \E first \in Fixer, second \in Fixer :
          \E r \in {handleConvert(app, first, second)} : Handled("handleConvert", r)

Next ==
    \/ ConvertToToon
    \/ ValidateToon
    \/ ConvertToJsonBegin
    \/ ConvertToJsonLine
    \/ ConvertToJsonReturn
    \/ RepairJson

Spec == Init /\ [][Next]_vars

AppNext ==
    \/ OnChange
    \/ HandleClear
    \/ ToggleConversionMode
    \/ HandleFormat
    \/ HandleRepair
    \/ HandleConvert

AppSpec == AppInit /\ [][AppNext]_vars

(***************************************************************************)
(* The properties.  The value a JSON text denotes is what JSON.parse makes *)
(* of it: the members of an object in the order of their first appearance. *)
(***************************************************************************)
ValueOf(text) == JSONparse(text).v

\* the strings of a value: its string scalars and its keys
RECURSIVE StringsOf(_)
StringsOf(v) ==
    IF v.t = "str" THEN {v.v}
    ELSE IF v.t = "arr" THEN UNION { StringsOf(v.v[n]) : n \in 1..Len(v.v) }
    ELSE IF v.t = "obj"
    THEN UNION { {v.v[n].k} \cup StringsOf(v.v[n].v) : n \in 1..Len(v.v) }
    ELSE {}

\* a string that reads as a number, a boolean or null
LookAlike(s) == s \in {"true", "false", "null"} \/ ~isNaN(Number(s))

\* convertToJson has returned the value of the text convertToToon was given
RoundTripped == result.ok /\ ValueOf(result.value) = ValueOf(json)

\* C1: for every JSON value whose strings are not number, boolean or null
\* look-alikes, whatever its root and its nesting, the text convertToJson
\* returns for convertToToon's output denotes the value convertToToon was
\* given: the same keys in the same order, the same lengths, the same scalars.
RoundTripKeepsValue ==
    (pc = "parsed" /\ roundTrip /\ \A s \in StringsOf(ValueOf(json)) : ~LookAlike(s))
        => RoundTripped

\* C2: validateToon is true of every text convertToToon returns.
SerializedIsValid == (pc = "validated" /\ roundTrip) => valid

ExampleJson == "{\"user\":{\"name\":\"Alice\",\"active\":true},\"scores\":[85,92,78]}"

ExampleToon == "user:\n  name: Alice\n  active: true\nscores[3]: 85,92,78"

\* C3: convertToToon of the example returns exactly
\* user:\n  name: Alice\n  active: true\nscores[3]: 85,92,78
\* with no other character and no trailing whitespace.
ExampleSerialization == (pc = "toon" /\ json = ExampleJson) => toon = ExampleToon

\* a scalar of C4: null, a boolean, a number, or a string without a backslash
PlainScalar(v) ==
    v.t \in {"null", "bool", "num"} \/ (v.t = "str" /\ ~includes(v.v, "\\"))

\* a key of C4: it matches [A-Za-z0-9_]+ and is no digit string
WordKey(k) == Len(k) >= 1 /\ AllIn(k, WordChars) /\ ~AllIn(k, Digits)

\* an object of C4: its keys are word keys, its values plain scalars,
\* non-empty objects of the same kind, or arrays of two or more plain scalars
RECURSIVE PlainObject(_)
PlainObject(v) ==
    /\ v.t = "obj"
    /\ \A n \in 1..Len(v.v) :
          /\ WordKey(v.v[n].k)
          /\ \/ PlainScalar(v.v[n].v)
             \/ v.v[n].v.t = "obj" /\ Len(v.v[n].v.v) >= 1 /\ PlainObject(v.v[n].v)
             \/ /\ v.v[n].v.t = "arr"
                /\ Len(v.v[n].v.v) >= 2
                /\ \A m \in 1..Len(v.v[n].v.v) : PlainScalar(v.v[n].v.v[m])

\* C4: for every object of word keys whose values are plain scalars,
\* non-empty objects of the same kind, or simple arrays of two or more
\* scalars, convertToJson(convertToToon(V)) reproduces V.
PlainObjectRoundTrip ==
    (pc = "parsed" /\ roundTrip /\ PlainObject(ValueOf(json))) => RoundTripped

\* C5: convertToJson returns the empty object for the text {} and the empty
\* array for the text [].
EmptyContainersParse ==
    pc = "parsed" =>
        /\ toon = "{}" => result = Return("{}")
        /\ toon = "[]" => result = Return("[]")

\* the characters of [A-Za-z0-9_.]
BareClass ==
    CharsOf("abcdefghijklmnopqrstuvwxyzABCDEFGHIJKLMNOPQRSTUVWXYZ0123456789_.")

\* what C6 says the serializer emits for the string s: s itself when it is
\* not true, false or null, Number(s) is NaN, and every character of s is in
\* the class; else the JSON-quoted form
ClaimedText(s) ==
    IF /\ s \notin {"true", "false", "null"}
       /\ isNaN(Number(s))
       /\ \A n \in 1..Len(s) : SubSeq(s, n, n) \in BareClass
    THEN s
    ELSE QuoteJSONString(s)

\* a value that is the object {"k": <string>}
IsStringField(v) == v.t = "obj" /\ Len(v.v) = 1 /\ v.v[1].k = "k" /\ v.v[1].v.t = "str"

LeadingSpaces(line) ==
    MinOr({ n \in 0..(Len(line) - 1) : SubSeq(line, n + 1, n + 1) # " " }, Len(line))

\* what C7 says of a line
ClaimedValidLine(line) ==
    \/ trim(line) = ""
    \/ /\ LeadingSpaces(line) % 2 = 0
       /\ (startsWith(trim(line), "- ") \/ includes(trim(line), ":"))

\* C7: validateToon(text) is true if and only if every non-blank line of
\* text begins with an even number of spaces and its trimmed content starts
\* with "- " or contains ":".
ValidIffEvenSpaces ==
    pc = "validated" =>
        (valid <=> \A n \in 1..Len(split(toon, "\n")) :
                      ClaimedValidLine(split(toon, "\n")[n]))

\* the keys of the field lines of text that begin with indent spaces
FieldKeys(text, indent) ==
    LET IsField(line) == searchNonSpace(line) = indent /\ includes(line, ":")
        KeyOf(line) ==
            substring(trim(line), 0,
                      SetMin({indexOf(trim(line), ":"), indexOf(trim(line), "[")} \ {-1}))
        Fields == SelectSeq(split(text, "\n"), IsField)
    IN  [n \in 1..Len(Fields) |-> KeyOf(Fields[n])]

\* the keys of an object in the order of the JSON text
TextKeys(v) == [n \in 1..Len(v.v) |-> v.v[n].k]

\* an object whose keys are all written bare
BareKeyed(v) == v.t = "obj" /\ \A n \in 1..Len(v.v) : IsBareKey(v.v[n].k)

\* an object of one field whose value is an object of bare keys
NestsBareKeyed(v) == v.t = "obj" /\ Len(v.v) = 1 /\ BareKeyed(v.v[1].v)

\* C8 as stated: convertToToon emits the fields of every object in the
\* order the keys appear in the JSON input text, digit strings included.
FieldsInTextOrder ==
    (pc = "toon" /\ result.ok) =>
        /\ BareKeyed(ValueOf(json)) => FieldKeys(toon, 0) = TextKeys(ValueOf(json))
        /\ NestsBareKeyed(ValueOf(json)) =>
              FieldKeys(toon, 2) = TextKeys(ValueOf(json).v[1].v)

\* a key that JavaScript orders as an integer: a digit string without a
\* leading zero (below 2^32 - 1, as every digit string of the model is)
IntegerKey(k) == k = "0" \/ (Len(k) >= 1 /\ AllIn(k, Digits) /\ SubSeq(k, 1, 1) # "0")

RECURSIVE Ascending(_)
Ascending(S) ==
    IF S = {} THEN <<>>
    ELSE LET least == CHOOSE a \in S : \A b \in S : DigitsToNat(a, 10) <= DigitsToNat(b, 10)
         IN  <<least>> \o Ascending(S \ {least})

\* the integer keys in ascending order, then the other keys as they come
IntegerKeysFirst(keys) ==
    LET Other(k) == ~IntegerKey(k)
    IN  Ascending({ keys[n] : n \in { m \in 1..Len(keys) : IntegerKey(keys[m]) } })
        \o SelectSeq(keys, Other)

\* C8, amended: convertToToon emits the fields of every object in the order
\* of Object.keys: the keys that are array indices (digit strings without a
\* leading zero that denote an integer below 2^32 - 1) first, in ascending
\* numeric order, then the other keys in the order they first appear in the
\* JSON input text.
FieldsInKeyOrder ==
    (pc = "toon" /\ result.ok) =>
        /\ BareKeyed(ValueOf(json)) =>
              FieldKeys(toon, 0) = IntegerKeysFirst(TextKeys(ValueOf(json)))
        /\ NestsBareKeyed(ValueOf(json)) =>
              FieldKeys(toon, 2) = IntegerKeysFirst(TextKeys(ValueOf(json).v[1].v))

\* C8, its case: a digit key written after another key was emitted first
DigitKeyMoved ==
    /\ pc = "toon"
    /\ json = "{\"b\":1,\"2\":2,\"a\":3}"
    /\ toon = "2: 2 \nb: 1 \na: 3 "

\* the [N] annotations of text: <<a, b>> with "[" at index a, "]" at index
\* b, digits between them and ":" after them
Annotations(text) ==
    { p \in (0..(Len(text) - 1)) \X (0..(Len(text) - 1)) :
        /\ p[1] + 1 < p[2]
        /\ charAt(text, p[1]) = "["
        /\ charAt(text, p[2]) = "]"
        /\ charAt(text, p[2] + 1) = ":"
        /\ AllIn(substring(text, p[1] + 1, p[2]), Digits) }

OtherLengths == {"0", "7", "12"}

\* the texts that differ from text in the number of one annotation
LengthVariants(text) ==
    { substring(text, 0, p[1] + 1) \o n \o substringFrom(text, p[2]) :
        p \in Annotations(text), n \in OtherLengths }

\* C9: changing only the number N inside a key's [N] annotation changes
\* neither the value convertToJson returns nor whether it succeeds.
LengthNeverRead ==
    pc = "parsed" => \A t \in LengthVariants(toon) : convertToJson(t) = result

\* C10: whatever jsonrepair returns or throws on either call, repairJson
\* returns the text formatJson made of what the last call returned, a JSON
\* text in the two-space form that formatJson leaves as it is, or it throws
\* 'Unable to repair JSON'.
RepairIsFormatted ==
    pc = "repaired" =>
        IF result.ok
        THEN /\ calls[Len(calls)].outcome.ok
             /\ result = formatJson(calls[Len(calls)].outcome.value)
             /\ formatJson(result.value) = result
        ELSE result = Throw("Unable to repair JSON")

\* C10, its case: the second call of jsonrepair returned a text, and
\* repairJson returned it formatted
RepairedOnRetry ==
    /\ pc = "repaired"
    /\ Len(calls) = 2
    /\ result.ok
    /\ result.value # calls[2].outcome.value

\* C11: whenever handleConvert, handleFormat or handleRepair ends by
\* reporting an error, inputContent and outputContent are exactly what they
\* were before the handler ran.
ErrorLeavesContent ==
    handled.reported =>
        /\ inputContent = handled.before.inputContent
        /\ outputContent = handled.before.outputContent

\* C11, its case: handleConvert reported an error while an output of an
\* earlier conversion was displayed
ErrorAfterOutput ==
    /\ handled.handler = "handleConvert"
    /\ handled.reported
    /\ error.set
    /\ handled.before.outputContent # ""

\* C12 as stated: repairJson is invoked only while the conversion mode is
\* JSON to TOON and only on input text for which validateJson is false.
RepairsOnlyInvalidJson ==
    \A n \in 1..Len(handled.repairs) :
        /\ handled.repairs[n].mode = "json-to-toon"
        /\ ~validateJson(handled.repairs[n].text)

\* C12, amended: repairJson is invoked only while the conversion mode is
\* JSON to TOON, and handleConvert invokes it only on input text for which
\* validateJson is false; handleRepair invokes it on valid JSON text too.
ConvertRepairsOnlyInvalidJson ==
    \A n \in 1..Len(handled.repairs) :
        /\ handled.repairs[n].mode = "json-to-toon"
        /\ handled.handler = "handleConvert" => ~validateJson(handled.repairs[n].text)

\* C12, its case: handleConvert has called repairJson, on the text in the
\* editor
ConvertRepaired ==
    /\ handled.handler = "handleConvert"
    /\ Len(handled.repairs) = 1
    /\ handled.repairs[1].text = handled.before.inputContent
    /\ handled.before.conversionMode = "json-to-toon"

\* the number of array-item lines of text
ItemLines(text) ==
    Cardinality({ n \in 1..Len(split(text, "\n")) :
                    startsWith(trim(split(text, "\n")[n]), "- ") })

\* the number of elements of the arrays of a value, at every depth
RECURSIVE ArrayElements(_)
ArrayElements(v) ==
    LET Sum(f) == LET RECURSIVE Upto(_)
                      Upto(n) == IF n = 0 THEN 0 ELSE Upto(n - 1) + f[n]
                  IN  Upto(Len(f))
    IN  IF v.t = "arr"
        THEN Len(v.v) + Sum([n \in 1..Len(v.v) |-> ArrayElements(v.v[n])])
        ELSE IF v.t = "obj"
        THEN Sum([n \in 1..Len(v.v) |-> ArrayElements(v.v[n].v)])
        ELSE 0

\* C13: for every text that validateToon accepts, convertToJson fails or
\* returns a value in which every array-item line of the text is an element
\* of some array: the value has at least as many array elements as the text
\* has item lines.
ItemLinesAttached ==
    (pc = "parsed" /\ validateToon(toon) /\ result.ok)
        => ItemLines(toon) <= ArrayElements(ValueOf(result.value))

\* a non-empty array of plain scalars
PlainArray(v) ==
    v.t = "arr" /\ Len(v.v) >= 1 /\ \A n \in 1..Len(v.v) : PlainScalar(v.v[n])

\* C14: for every object field that holds a non-empty simple array of n
\* elements, n = 1 included, parsing the serialized field line key[n]: ...
\* yields an Array of exactly n elements, never a bare scalar.
SimpleArrayStaysArray ==
    (pc = "parsed" /\ roundTrip /\ ValueOf(json).t = "obj") =>
        \A n \in 1..Len(ValueOf(json).v) :
            (WordKey(ValueOf(json).v[n].k) /\ PlainArray(ValueOf(json).v[n].v)) =>
                /\ result.ok
                /\ ValueOf(result.value).t = "obj"
                /\ HasOwn(ValueOf(result.value).v, ValueOf(json).v[n].k)
                /\ Get(ValueOf(result.value).v, ValueOf(json).v[n].k).t = "arr"
                /\ Len(Get(ValueOf(result.value).v, ValueOf(json).v[n].k).v)
                      = Len(ValueOf(json).v[n].v.v)

\* C15: an object field whose value is an empty container survives the round
\* trip: where a field of a serialized object holds an empty object, the
\* parsed value holds an empty object under that key, not a string, and where
\* it holds an empty array, the parsed value holds an empty array.
EmptyFieldSurvives ==
    (pc = "parsed" /\ roundTrip /\ ValueOf(json).t = "obj") =>
        \A n \in 1..Len(ValueOf(json).v) :
            (/\ WordKey(ValueOf(json).v[n].k)
             /\ ValueOf(json).v[n].v.t \in {"obj", "arr"}
             /\ Len(ValueOf(json).v[n].v.v) = 0) =>
                /\ result.ok
                /\ ValueOf(result.value).t = "obj"
                /\ HasOwn(ValueOf(result.value).v, ValueOf(json).v[n].k)
                /\ Get(ValueOf(result.value).v, ValueOf(json).v[n].k) = ValueOf(json).v[n].v

\* the values inside a value, itself included
RECURSIVE SubValues(_)
SubValues(v) ==
    {v} \cup IF v.t = "arr" THEN UNION { SubValues(v.v[n]) : n \in 1..Len(v.v) }
             ELSE IF v.t = "obj" THEN UNION { SubValues(v.v[n].v) : n \in 1..Len(v.v) }
             ELSE {}

\* an array that the serializer writes as item blocks
ComplexArray(v) == v.t = "arr" /\ Len(v.v) >= 1 /\ ~isSimple(v.v)

\* the deepest indent level at which arrays are serialized
MaxLevel == 2

\* a line that opens an item block at indent level L
ItemHeader(line, L) == startsWith(line, repeat("  ", L) \o "- ")

\* the text is n item blocks of level L: it starts with a header, has n
\* headers, and every other line is indented deeper than 2 * L
ItemBlocks(text, L, n) ==
    LET ls == split(text, "\n")
    IN  /\ ItemHeader(ls[1], L)
        /\ Cardinality({ k \in 1..Len(ls) : ItemHeader(ls[k], L) }) = n
        /\ \A k \in 1..Len(ls) : ~ItemHeader(ls[k], L) => LeadingSpaces(ls[k]) > 2 * L

\* C16: a complex array of n elements serialized at indent level L is
\* emitted as exactly n item blocks, the first line of each beginning with
\* 2 * L spaces and a dash, every further line indented deeper than 2 * L,
\* whatever the kind of its elements.
ArrayIsItemBlocks ==
    (pc = "toon" /\ result.ok) =>
        \A a \in { v \in SubValues(ValueOf(json)) : ComplexArray(v) } :
            \A L \in 0..MaxLevel : ItemBlocks(toToon(a, L), L, Len(a.v))

\* a non-empty array whose elements are all arrays
ArrayOfArrays(v) == v.t = "arr" /\ Len(v.v) >= 1 /\ \A n \in 1..Len(v.v) : v.v[n].t = "arr"

\* C17: an array of arrays, at the root or under an object field, comes
\* back from convertToJson(convertToToon(A)) with its elements: the parsed
\* value holds, in the same place, the same arrays.
NestedArraysRecovered ==
    (pc = "parsed" /\ roundTrip) =>
        /\ ArrayOfArrays(ValueOf(json)) => RoundTripped
        /\ ValueOf(json).t = "obj" =>
              \A n \in 1..Len(ValueOf(json).v) :
                  (WordKey(ValueOf(json).v[n].k) /\ ArrayOfArrays(ValueOf(json).v[n].v)) =>
                      /\ result.ok
                      /\ ValueOf(result.value).t = "obj"
                      /\ HasOwn(ValueOf(result.value).v, ValueOf(json).v[n].k)
                      /\ Get(ValueOf(result.value).v, ValueOf(json).v[n].k)
                            = ValueOf(json).v[n].v

\* an object whose values are all plain scalars
ScalarFields(v) == v.t = "obj" /\ \A n \in 1..Len(v.v) : PlainScalar(v.v[n].v)

\* C18: key quoting is invertible: every key of a serialized object, whatever
\* characters it holds, is the key of a field of the parsed value, and the
\* parsed value has no other key.
KeysSurvive ==
    (pc = "parsed" /\ roundTrip /\ ScalarFields(ValueOf(json))) =>
        /\ result.ok
        /\ ValueOf(result.value).t = "obj"
        /\ { ValueOf(result.value).v[n].k : n \in 1..Len(ValueOf(result.value).v) }
             = { ValueOf(json).v[n].k : n \in 1..Len(ValueOf(json).v) }

\* the frames that the parser keeps for the line it is about to process
KeptFrames == popFrames(st.stack, st.heap, searchNonSpace(lines[i]), trim(lines[i]))

\* what C19 says stops the popping at frame n of the stack: it is the root
\* frame, or its indentation is below the line's, or it is an Array frame of
\* the line's indentation and the line is an item line
StopsPopping(n) ==
    \/ n = 1
    \/ st.stack[n].indent < searchNonSpace(lines[i])
    \/ /\ st.stack[n].indent = searchNonSpace(lines[i])
       /\ st.heap[st.stack[n].obj].t = "arr"
       /\ startsWith(trim(lines[i]), "- ")

\* C19: for the line that the parser processes, the frames kept are the
\* stack below and including the topmost frame that is the root frame, or has
\* indentation below the line's, or is an Array frame of the line's
\* indentation while the line starts with a dash and a space: every frame
\* popped satisfies none of these, and the root frame is never popped.
PopsToParent ==
    (pc = "parsing" /\ i <= Len(lines)) =>
        /\ Len(KeptFrames) \in 1..Len(st.stack)
        /\ KeptFrames = SubSeq(st.stack, 1, Len(KeptFrames))
        /\ StopsPopping(Len(KeptFrames))
        /\ \A n \in (Len(KeptFrames) + 1)..Len(st.stack) : ~StopsPopping(n)

\* a line for which frames are popped down to a frame that is not the root
PoppedToInnerFrame ==
    /\ pc = "parsing" /\ i <= Len(lines)
    /\ Len(KeptFrames) < Len(st.stack)
    /\ Len(KeptFrames) > 1

\* the container of the bottom frame, before and after a step
Root == st.heap[st.stack[1].obj]

RootAfter == st'.heap[st'.stack[1].obj]

\* a step that processes line i without an exception
LineStep == pc = "parsing" /\ i <= Len(lines) /\ i' = i + 1 /\ ~st'.error

\* line i is an array-item line whose parent is the root frame
RootItemLine == startsWith(trim(lines[i]), "- ") /\ Len(KeptFrames) = 1

\* the elements of the root before a step, none while it is an Object
RootItems == IF Root.t = "arr" THEN Root.v ELSE <<>>

\* what C20 says of a step that processes a line
CoercionStep ==
    LineStep =>
        /\ (Root.t = "obj" /\ RootAfter.t = "arr")
              <=> (RootItemLine /\ Root.t = "obj" /\ Len(Root.v) = 0)
        /\ Root.t = "arr" => (RootAfter.t = "arr" /\ st'.stack[1].obj = st.stack[1].obj)
        /\ RootAfter.t = "arr" =>
              IF RootItemLine
              THEN /\ Len(RootAfter.v) = Len(RootItems) + 1
                   /\ SubSeq(RootAfter.v, 1, Len(RootItems)) = RootItems
              ELSE RootAfter.v = RootItems

\* C20: the root becomes an Array exactly in a step that processes an
\* array-item line whose parent is the root frame while the root is an Object
\* with no keys; from then on the root stays that Array, every root-level
\* item line appends one element to it and no other line changes its
\* elements, and the value returned is that Array.
RootCoercion ==
    [][/\ CoercionStep
       /\ (pc = "parsing" /\ pc' = "parsed" /\ result'.ok /\ Root.t = "arr")
             => (ValueOf(result'.value).t = "arr"
                 /\ Len(ValueOf(result'.value).v) = Len(Root.v))]_vars

\* the frame on top of the stack after a step, and its container
TopAfter == st'.stack[Len(st'.stack)]

\* the container of the parent frame of line i
ParentOfLine == st.heap[KeptFrames[Len(KeptFrames)].obj]

\* the same container after the step
ParentAfter == st'.heap[KeptFrames[Len(KeptFrames)].obj]

\* line i is a dash with nothing after it but spaces
BareDashLine == trim(lines[i]) = "-"

\* C21: a step that processes an array-item line whose remainder after the
\* dash is empty, under a parent Array, appends a new empty Object to that
\* Array and leaves on top of the stack the frame of that Object, registered
\* at the indentation of the line.
BareDashOpensObject ==
    [][(LineStep /\ BareDashLine /\ ParentOfLine.t = "arr") =>
          /\ Len(ParentAfter.v) = Len(ParentOfLine.v) + 1
          /\ ParentAfter.v[Len(ParentAfter.v)] = Ref(TopAfter.obj)
          /\ st'.heap[TopAfter.obj] = Obj(<<>>)
          /\ TopAfter.indent = searchNonSpace(lines[i])]_vars

\* a text of one line, a dash and a field whose word key carries [N]
AnnotatedItem(text) ==
    /\ startsWith(text, "- ")
    /\ indexOf(text, "\n") = -1
    /\ \E p \in Annotations(substringFrom(text, 2)) :
          p[1] >= 1 /\ AllIn(substring(substringFrom(text, 2), 0, p[1]), WordChars)

\* C22: an array-item line - key[N]: ... opens a new Object in the parent
\* Array and processes the text after the dash exactly as a field line: the
\* value parsed from the item line is an Array whose one element is the
\* Object that the field line alone is parsed to.
AnnotatedItemIsField ==
    (pc = "parsed" /\ AnnotatedItem(toon)) =>
        /\ result.ok
        /\ convertToJson(substringFrom(toon, 2)).ok
        /\ ValueOf(result.value)
             = Arr(<<ValueOf(convertToJson(substringFrom(toon, 2)).value)>>)

\* C23: an array-item line whose remainder is a double-quoted string is
\* appended to the array as the String it quotes, whatever the string holds,
\* a colon included: the text of one such line is parsed to an Array of that
\* one String, never to an Array holding an Object.
QuotedItemIsString ==
    pc = "parsed" =>
        \A s \in StrPool :
            toon = "- " \o QuoteJSONString(s) =>
                result.ok /\ ValueOf(result.value) = Arr(<<Str(s)>>)

\* line i is a field line, without a leading dash, whose value is empty
EmptyFieldLine ==
    /\ ~startsWith(trim(lines[i]), "- ")
    /\ indexOf(trim(lines[i]), ":") # -1
    /\ trim(substringFrom(trim(lines[i]), indexOf(trim(lines[i]), ":") + 1)) = ""

\* the next non-blank line is an item line indented at least as line i is
NextIsItem ==
    /\ i + 1 <= Len(lines)
    /\ searchNonSpace(lines[i + 1]) >= searchNonSpace(lines[i])
    /\ startsWith(trim(lines[i + 1]), "- ")

\* the new container is the value of a field of the parent Object
HeldByParent ==
    \E n \in 1..Len(ParentAfter.v) : ParentAfter.v[n].v = Ref(TopAfter.obj)

\* what C24 says of a step, but for the assignment
OpensContainer ==
    (LineStep /\ EmptyFieldLine) =>
        /\ Len(st'.stack) = Len(KeptFrames) + 1
        /\ TopAfter.indent = searchNonSpace(lines[i])
        /\ TopAfter.obj = Len(st.heap) + 1
        /\ st'.heap[TopAfter.obj] = IF NextIsItem THEN Arr(<<>>) ELSE Obj(<<>>)

\* C24: a step that processes a field line whose value is empty creates an
\* Array if the next non-blank line is an item line indented at least as the
\* field line is, and an Object otherwise, the last line included; it pushes
\* the frame of the new container at the indentation of the field line and,
\* the parent being an Object, makes the container the value of a field of it.
EmptyValueOpensContainer ==
    [][/\ OpensContainer
       /\ (LineStep /\ EmptyFieldLine /\ ParentOfLine.t = "obj") => HeldByParent]_vars

\* an array of two or more scalars, strings of any content among them
ScalarList(v) == v.t = "arr" /\ Len(v.v) >= 2 /\ isSimple(v.v)

\* C25: for every object field that holds a simple array of two or more
\* scalars, whatever its strings contain, the inline comma-joined text the
\* serializer emits is split back into the same number of elements with the
\* same values.
InlineListSplitsBack ==
    (pc = "parsed" /\ roundTrip /\ ValueOf(json).t = "obj") =>
        \A n \in 1..Len(ValueOf(json).v) :
            (WordKey(ValueOf(json).v[n].k) /\ ScalarList(ValueOf(json).v[n].v)) =>
                /\ result.ok
                /\ ValueOf(result.value).t = "obj"
                /\ HasOwn(ValueOf(result.value).v, ValueOf(json).v[n].k)
                /\ Get(ValueOf(result.value).v, ValueOf(json).v[n].k) = ValueOf(json).v[n].v

\* the text of one field line a: t whose value t is unquoted text that is
\* neither a list nor an empty container
UnquotedField(text) ==
    /\ startsWith(text, "a: ")
    /\ indexOf(text, "\n") = -1
    /\ substringFrom(text, 3) = trim(substringFrom(text, 3))
    /\ substringFrom(text, 3) \notin {"", "[]", "{}"}
    /\ \A n \in 1..Len(text) : SubSeq(text, n, n) \notin {"\"", "'", ","}

\* what C26 says unquoted text is parsed to
ClaimedScalar(text) ==
    IF text = "true" THEN Bool(TRUE)
    ELSE IF text = "false" THEN Bool(FALSE)
    ELSE IF text = "null" THEN Null
    ELSE IF Number(text).k = "fin" THEN Num(Number(text))
    ELSE Str(text)

\* C26: unquoted text is parsed to a Number only when it represents a finite
\* number, true, false and null to the two Bools and Null, and every other
\* unquoted text, Infinity and NaN among them, to the String of that text.
UnquotedScalars ==
    (pc = "parsed" /\ UnquotedField(toon)) =>
        result = Return(JSONstringify(Obj(<<Prop("a", ClaimedScalar(substringFrom(toon, 3)))>>)))

\* the openers c of text that no closer d answers, counted from the end of
\* the text: openers less closers
RECURSIVE NetOpen(_, _, _)
NetOpen(text, c, d) ==
    IF text = "" THEN 0
    ELSE NetOpen(SubSeq(text, 1, Len(text) - 1), c, d)
         + (IF SubSeq(text, Len(text), Len(text)) = c THEN 1
            ELSE IF SubSeq(text, Len(text), Len(text)) = d THEN -1 ELSE 0)

\* the closers C27 has appended for the second run
ClaimedClosers(text) ==
    repeat("}", NetOpen(text, "{", "}")) \o repeat("]", NetOpen(text, "[", "]"))

\* C27: within one call of repairJson the fixer is run once or twice, first
\* on the input; it is run a second time only if the first attempt failed (the
\* fixer threw, or what it returned could not be formatted), on the input
\* followed by one closer for every unmatched opener, and after a second
\* failure the call throws with no further run.
FixerRunsAtMostTwice ==
    pc = "repaired" =>
        /\ Len(calls) \in 1..2
        /\ calls[1].text = json
        /\ Len(calls) = 2 =>
              /\ ~formatRepaired(calls[1].outcome).ok
              /\ calls[2].text = json \o ClaimedClosers(json)
              /\ ~formatRepaired(calls[2].outcome).ok => result = Throw("Unable to repair JSON")
        /\ Len(calls) = 1 => result = formatRepaired(calls[1].outcome)

\* C27, its case: a second run on a text with closers appended, which failed
SecondRunBalanced ==
    /\ pc = "repaired"
    /\ Len(calls) = 2
    /\ calls[2].text # calls[1].text
    /\ ~calls[2].outcome.ok
    /\ ~result.ok

\* a line that is neither an item line nor a field line
NeitherShape(line) ==
    /\ trim(line) # ""
    /\ ~startsWith(trim(line), "- ")
    /\ indexOf(trim(line), ":") = -1

\* text without its line n
WithoutLine(text, n) ==
    join(SubSeq(split(text, "\n"), 1, n - 1)
           \o SubSeq(split(text, "\n"), n + 1, Len(split(text, "\n"))), "\n")

\* C28: a line that is neither an item line nor a field line has no effect
\* on parsing: convertToJson returns for a text what it returns for the text
\* with that line removed, and the step that processes the line leaves the
\* frame stack as it was.
SkippedLineInert ==
    /\ [](pc = "parsed" =>
            \A n \in 1..Len(split(toon, "\n")) :
                NeitherShape(split(toon, "\n")[n]) => convertToJson(WithoutLine(toon, n)) = result)
    /\ [][(LineStep /\ NeitherShape(lines[i])) => st'.stack = st.stack]_vars

\* C29: after every line the parser processes, the frame stack is not empty,
\* its bottom frame is the root frame with the indentation -1, and the
\* indentations recorded are non-decreasing from the bottom to the top.
StackInOrder ==
    pc \in {"parsing", "parsed"} =>
        /\ Len(st.stack) >= 1
        /\ st.stack[1].indent = -1
        /\ \A n \in 1..(Len(st.stack) - 1) : st.stack[n].indent <= st.stack[n + 1].indent

\* C29, its case: frames of three indentations above the root frame
DeepStack ==
    /\ pc = "parsing"
    /\ i > 1
    /\ Len(st.stack) >= 4
    /\ st.stack[2].indent < st.stack[4].indent

====
